---- MODULE Spec2Model ----
(***************************************************************************)
(* A model of the CAMO-GEN generation engine (andreaperaltro/camo):        *)
(* pattern factory and option merging, the shared Perlin noise singleton,  *)
(* the 3x3 replication used by the shape families, the Digital family's    *)
(* cellular-automata smoother, the seam verifier and the PatternCanvas     *)
(* generation effect.  Each subsystem has its own state variable and its   *)
(* own specification; a specification leaves the other subsystems idle.    *)
(***************************************************************************)
EXTENDS Integers, Sequences, FiniteSets, TLC

VARIABLES grid, lib, shape, raster, cv, fn, gen

vars == <<grid, lib, shape, raster, cv, fn, gen>>

(***************************************************************************)
(* Generic helpers.                                                        *)
(***************************************************************************)
Max(a, b) == IF a >= b THEN a ELSE b
Min(a, b) == IF a <= b THEN a ELSE b
Abs(a) == IF a >= 0 THEN a ELSE 0 - a

\* The nearest integer to a / b, b > 0.
RoundDiv(a, b) == ((2 * a) + b) \div (2 * b)

\* The sequence f written out as the tuple of its elements.
Listed(f) == SubSeq(f, 1, Len(f))

(***************************************************************************)
(* JavaScript numbers.  Where the code decides by comparing or rounding    *)
(* the result of floating-point arithmetic, the arithmetic is that of the  *)
(* IEEE 754 doubles: every operation returns the double nearest to the     *)
(* exact result, halves going to the even mantissa.  A natural number is   *)
(* held as the sequence of its digits to the base 2^14, lowest first, and  *)
(* a double as [sign, man, exp], the value sign * man * 2^exp with a       *)
(* mantissa of 53 bits (empty for zero).  The values met are far from the  *)
(* subnormal and from the infinite ones.                                   *)
(***************************************************************************)
Limb(a, i) == IF i >= 1 /\ i <= Len(a) THEN a[i] ELSE 0

RECURSIVE Strip(_)
Strip(a) ==
  IF a # << >> /\ a[Len(a)] = 0 THEN Strip(SubSeq(a, 1, Len(a) - 1)) ELSE a

\* The number whose digit columns (of any sign and size) are cols.
RECURSIVE Carry(_, _)
Carry(cols, carry) ==
  IF cols = << >>
  THEN IF carry = 0 THEN << >>
       ELSE << carry % 16384 >> \o Carry(<< >>, carry \div 16384)
  ELSE LET t == Head(cols) + carry
       IN  << t % 16384 >> \o Carry(Tail(cols), t \div 16384)

BigOf(cols) == Strip(Carry(Listed(cols), 0))

BigOfInt(n) == BigOf(<< n >>)

RECURSIVE BigToInt(_)
BigToInt(a) ==
  IF a = << >> THEN 0 ELSE Head(a) + (16384 * BigToInt(Tail(a)))

BigAdd(a, b) ==
  BigOf([i \in 1..Max(Len(a), Len(b)) |-> Limb(a, i) + Limb(b, i)])

\* a - b for a >= b
BigSub(a, b) ==
  BigOf([i \in 1..Max(Len(a), Len(b)) |-> Limb(a, i) - Limb(b, i)])

RECURSIVE Column(_, _, _, _)
Column(a, b, k, i) ==
  IF i > Len(a) THEN 0
  ELSE (a[i] * Limb(b, k + 1 - i)) + Column(a, b, k, i + 1)

\* a * b for numbers of at most four digits
BigMul(a, b) ==
  BigOf([k \in 1..(Len(a) + Len(b)) |-> Column(a, b, k, 1)])

RECURSIVE BigCmpFrom(_, _, _)
BigCmpFrom(a, b, i) ==
  IF i = 0 THEN 0
  ELSE IF a[i] # b[i] THEN (IF a[i] > b[i] THEN 1 ELSE -1)
  ELSE BigCmpFrom(a, b, i - 1)

\* -1, 0 or 1 as a is less than, equal to or greater than b
BigCmp(a, b) ==
  IF Len(a) # Len(b) THEN (IF Len(a) > Len(b) THEN 1 ELSE -1)
  ELSE BigCmpFrom(a, b, Len(a))

RECURSIVE Bits(_)
Bits(n) == IF n = 0 THEN 0 ELSE 1 + Bits(n \div 2)

BigBitLen(a) ==
  IF a = << >> THEN 0 ELSE (14 * (Len(a) - 1)) + Bits(a[Len(a)])

\* a * 2^k
BigShl(a, k) ==
  LET q == k \div 14
      r == k % 14
  IN  BigOf([i \in 1..(Len(a) + q) |->
               IF i <= q THEN 0 ELSE a[i - q] * (2 ^ r)])

\* a \div 2^k
BigShr(a, k) ==
  LET q == k \div 14
      r == k % 14
  IN  Strip(Listed([i \in 1..Max(0, Len(a) - q) |->
                      (Limb(a, i + q) \div (2 ^ r))
                      + ((Limb(a, i + q + 1) % (2 ^ r)) * (2 ^ (14 - r)))]))

\* a % 2^k
BigLow(a, k) ==
  LET q == k \div 14
      r == k % 14
  IN  Strip(Listed([i \in 1..Min(Len(a), q + 1) |->
                      IF i <= q THEN a[i] ELSE a[i] % (2 ^ r)]))

\* <<a \div d, a % d>> for 0 < d < 2^17, from the highest digit of a down.
RECURSIVE BigDivSmall(_, _)
BigDivSmall(a, d) ==
  IF a = << >> THEN << << >>, 0 >>
  ELSE LET upper == BigDivSmall(Tail(a), d)
           t == (upper[2] * 16384) + Head(a)
       IN  << << t \div d >> \o upper[1], t % d >>

DoubleZero == [sign |-> 1, man |-> << >>, exp |-> 0]

\* The double sign * rounded * 2^e for a mantissa rounded to 53 bits, which
\* the rounding may have carried into a 54th.
Normalized(sign, rounded, e) ==
  IF BigBitLen(rounded) = 54
  THEN [sign |-> sign, man |-> BigShr(rounded, 1), exp |-> e + 1]
  ELSE [sign |-> sign, man |-> rounded, exp |-> e]

\* The quotient q of a mantissa by 2^k rounded to the nearest number, c
\* comparing the remainder with the half of 2^k: a half goes to the even
\* quotient unless the exact value lies above it.
Nearest(sign, q, c, e, sticky) ==
  Normalized(sign,
             IF c > 0 \/ (c = 0 /\ (sticky \/ q[1] % 2 = 1))
             THEN BigAdd(q, << 1 >>) ELSE q,
             e)

\* The double nearest to sign * m * 2^e for a mantissa m of length bits.
Rounded(sign, m, e, sticky, length) ==
  IF length = 0 THEN DoubleZero
  ELSE IF length <= 53
  THEN [sign |-> sign, man |-> BigShl(m, 53 - length),
        exp |-> e - (53 - length)]
  ELSE Nearest(sign, BigShr(m, length - 53),
               BigCmp(BigLow(m, length - 53), BigShl(<< 1 >>, length - 54)),
               e + (length - 53), sticky)

\* The double nearest to sign * m * 2^e; sticky says that the exact value
\* lies above m * 2^e and below (m + 1) * 2^e.
ToDouble(sign, m, e, sticky) == Rounded(sign, m, e, sticky, BigBitLen(m))

\* The number n as a double, |n| < 2^31.
DoubleOfInt(n) ==
  ToDouble(IF n < 0 THEN -1 ELSE 1, BigOfInt(Abs(n)), 0, FALSE)

\* The double of the quotient and the remainder division of n * 2^84 by the
\* divisor.
DoubleOfDivision(sign, division) ==
  ToDouble(sign, Strip(division[1]), -84, division[2] # 0)

\* The double n / d for integers n and 0 < d < 2^17: the quotient of two
\* numbers, and the decimal literal with the digits n and the power of ten d.
DoubleOfRatio(n, d) ==
  DoubleOfDivision(IF n < 0 THEN -1 ELSE 1,
                   BigDivSmall(BigShl(BigOfInt(Abs(n)), 84), d))

DoubleNeg(a) == [a EXCEPT !.sign = 0 - a.sign]

\* a * b
DoubleMul(a, b) ==
  IF a.man = << >> \/ b.man = << >> THEN DoubleZero
  ELSE ToDouble(a.sign * b.sign, BigMul(a.man, b.man), a.exp + b.exp, FALSE)

\* The sum of two doubles with the mantissas m and n at the exponent e, c
\* comparing m with n: the difference of two equal numbers is +0.
AddAligned(hiSign, loSign, m, n, e, c) ==
  ToDouble(IF hiSign = loSign \/ c >= 0 THEN hiSign ELSE loSign,
           IF hiSign = loSign THEN BigAdd(m, n)
           ELSE IF c >= 0 THEN BigSub(m, n)
           ELSE BigSub(n, m),
           e, FALSE)

\* The sum of two doubles, the mantissa of the one with the higher
\* exponent shifted to the exponent of the other.
AddShifted(hiSign, loSign, m, n, e) ==
  AddAligned(hiSign, loSign, m, n, e, BigCmp(m, n))

\* hi + lo for hi.exp >= lo.exp; an addend below a quarter of the last bit
\* of the other leaves it.
AddOrdered(hi, lo) ==
  IF hi.exp - lo.exp > 60 THEN hi
  ELSE AddShifted(hi.sign, lo.sign, BigShl(hi.man, hi.exp - lo.exp), lo.man,
                  lo.exp)

\* a + b
DoubleAdd(a, b) ==
  IF a.man = << >> THEN b
  ELSE IF b.man = << >> THEN a
  ELSE AddOrdered(IF a.exp >= b.exp THEN a ELSE b,
                  IF a.exp >= b.exp THEN b ELSE a)

\* a - b
DoubleSub(a, b) == DoubleAdd(a, DoubleNeg(b))

\* a < 0
DoubleNegative(a) == a.man # << >> /\ a.sign = -1

\* a < b
DoubleLess(a, b) == DoubleNegative(DoubleSub(a, b))

\* The floor of a double with the sign given, whose magnitude has the whole
\* part given and is a whole number when exact.
FloorOf(sign, whole, exact) ==
  IF sign = 1 THEN whole
  ELSE IF exact THEN 0 - whole
  ELSE 0 - (whole + 1)

\* Math.floor(a) for |a| < 2^31
DoubleFloor(a) ==
  IF a.man = << >> THEN 0
  ELSE IF a.exp >= 0 THEN a.sign * BigToInt(BigShl(a.man, a.exp))
  ELSE FloorOf(a.sign, BigToInt(BigShr(a.man, 0 - a.exp)),
               BigLow(a.man, 0 - a.exp) = << >>)

\* The whole number nearest to whole + part for 0 <= part < 1, halves going
\* to the even one.
HalfEven(whole, part, half) ==
  IF DoubleLess(half, part) \/ (part = half /\ whole % 2 = 1)
  THEN whole + 1 ELSE whole

RoundFrom(a, whole) ==
  HalfEven(whole, DoubleSub(a, DoubleOfInt(whole)), DoubleOfRatio(1, 2))

\* The integer nearest to a >= 0, halves going to the even one: the value a
\* Uint8ClampedArray stores.
DoubleRoundHalfEven(a) == RoundFrom(a, DoubleFloor(a))

(***************************************************************************)
(* The subsystems at rest.  A specification starts the subsystem it is     *)
(* about and leaves the variables of the others at these values.           *)
(***************************************************************************)
GridIdle ==
  [pc |-> "idle", rows |-> 0, cols |-> 0, complexity |-> 0, iteration |-> 0,
   input |-> <<>>, prev |-> <<>>, map |-> <<>>, result |-> <<>>]

LibIdle == [perlin |-> << >>, patterns |-> << >>]

ShapeIdle == [pc |-> "idle", call |-> << >>, stream |-> << >>, used |-> 0,
              rect |-> << >>, copies |-> << >>]

RasterIdle == [pc |-> "idle", edges |-> << >>]

CanvasIdle == [pc |-> "idle"]

FnIdle == [pc |-> "idle"]

GenIdle == [pc |-> "idle"]

GridOthersIdle ==
  /\ lib = LibIdle /\ shape = ShapeIdle /\ raster = RasterIdle /\ cv = CanvasIdle
  /\ fn = FnIdle /\ gen = GenIdle

GridOthersUnchanged == UNCHANGED <<lib, shape, raster, cv, fn, gen>>

LibOthersIdle ==
  /\ grid = GridIdle /\ shape = ShapeIdle /\ raster = RasterIdle /\ cv = CanvasIdle
  /\ fn = FnIdle /\ gen = GenIdle

LibOthersUnchanged == UNCHANGED <<grid, shape, raster, cv, fn, gen>>

ShapeOthersIdle ==
  /\ grid = GridIdle /\ lib = LibIdle /\ raster = RasterIdle /\ cv = CanvasIdle
  /\ fn = FnIdle /\ gen = GenIdle

ShapeOthersUnchanged == UNCHANGED <<grid, lib, raster, cv, fn, gen>>

RasterOthersIdle ==
  /\ grid = GridIdle /\ lib = LibIdle /\ shape = ShapeIdle /\ cv = CanvasIdle
  /\ fn = FnIdle /\ gen = GenIdle

RasterOthersUnchanged == UNCHANGED <<grid, lib, shape, cv, fn, gen>>

CanvasOthersIdle ==
  /\ grid = GridIdle /\ lib = LibIdle /\ shape = ShapeIdle /\ raster = RasterIdle
  /\ fn = FnIdle /\ gen = GenIdle

CanvasOthersUnchanged == UNCHANGED <<grid, lib, shape, raster, fn, gen>>

FnOthersIdle ==
  /\ grid = GridIdle /\ lib = LibIdle /\ shape = ShapeIdle
  /\ raster = RasterIdle /\ cv = CanvasIdle /\ gen = GenIdle

FnOthersUnchanged == UNCHANGED <<grid, lib, shape, raster, cv, gen>>

GenOthersIdle ==
  /\ grid = GridIdle /\ lib = LibIdle /\ shape = ShapeIdle
  /\ raster = RasterIdle /\ cv = CanvasIdle /\ fn = FnIdle

GenOthersUnchanged == UNCHANGED <<grid, lib, shape, raster, cv, fn>>

(***************************************************************************)
(* GridSmoother: DigitalPattern.enhanceShapes / getNeighbors (digital.ts). *)
(* A map is a function [0..rows-1 -> [0..cols-1 -> layer id]].             *)
(***************************************************************************)

\* Largest layer id a quantized cell can hold in the model (colors.length - 1).
MaxLayerId == 2

\* Grid shapes (rows, cols) the model explores; 1xN and 2xN make wrapped
\* neighbours coincide.
GridShapes == {<<1, 1>>, <<1, 3>>, <<2, 2>>, <<2, 3>>, <<3, 3>>}

\* Complexity values explored: 1 (floor gives 0, max() lifts it to 1), 60, 100.
GridComplexities == {1, 60, 100}

\* The (yOffset, xOffset) pairs in the order of the two nested loops of
\* getNeighbors, the centre skipped.
NeighborOffsets ==
  << <<-1, -1>>, <<-1, 0>>, <<-1, 1>>,
     << 0, -1>>,            << 0, 1>>,
     << 1, -1>>, << 1, 0>>, << 1, 1>> >>

\* getNeighbors without wraparound: a cell outside the grid reads as -1.
getNeighborsNoWrap(map, x, y, rows, cols) ==
  [k \in 1..8 |->
     LET ny == y + NeighborOffsets[k][1]
         nx == x + NeighborOffsets[k][2]
     IN  IF ny \in 0..(rows - 1) /\ nx \in 0..(cols - 1) THEN map[ny][nx] ELSE -1]

\* getNeighbors: the 8 surrounding values, indices wrapped modulo cols/rows.
getNeighbors(map, x, y, rows, cols) ==
  [k \in 1..8 |->
     LET ny == (y + NeighborOffsets[k][1] + rows) % rows
         nx == (x + NeighborOffsets[k][2] + cols) % cols
     IN  map[ny][nx]]

\* neighbors.filter(n => n === value).length
CountOf(neighbors, value) ==
  Cardinality({k \in DOMAIN neighbors : neighbors[k] = value})

\* The loop over Object.entries(neighborCounts): integer keys come in ascending
\* order and only a strictly greater count replaces the running best, so the
\* result is the smallest value among the most frequent ones.
RECURSIVE MostCommonFrom(_, _, _, _, _)
MostCommonFrom(neighbors, keys, v, mostCommonValue, highestCount) ==
  IF keys = {} THEN <<mostCommonValue, highestCount>>
  ELSE LET k == CHOOSE a \in keys : \A b \in keys : a <= b
           c == CountOf(neighbors, k)
       IN  IF c > highestCount
             THEN MostCommonFrom(neighbors, keys \ {k}, v, k, c)
             ELSE MostCommonFrom(neighbors, keys \ {k}, v, mostCommonValue, highestCount)

MostCommon(neighbors, currentValue) ==
  MostCommonFrom(neighbors, {neighbors[k] : k \in DOMAIN neighbors},
                 currentValue, currentValue, 0)

\* The threshold of the reassignment rule with 3 in place of 4.
SmoothCellLowThreshold(map, x, y, rows, cols) ==
  LET neighbors == getNeighbors(map, x, y, rows, cols)
      currentValue == map[y][x]
      sameNeighbors == CountOf(neighbors, currentValue)
      best == MostCommon(neighbors, currentValue)
  IN  IF sameNeighbors < 3 /\ best[2] >= 3 THEN best[1] ELSE currentValue

\* The body of the two inner loops of enhanceShapes for one cell: the value
\* result[y][x] holds after the sweep.
SmoothCell(map, x, y, rows, cols) ==
  LET neighbors == getNeighbors(map, x, y, rows, cols)
      currentValue == map[y][x]
      sameNeighbors == CountOf(neighbors, currentValue)
      best == MostCommon(neighbors, currentValue)
  IN  IF sameNeighbors < 3 /\ best[2] >= 4 THEN best[1] ELSE currentValue

\* A sweep that writes every new value into the grid it reads, cell after
\* cell in the order of the two loops, from cell number k on.
RECURSIVE SweepFrom(_, _, _, _)
SweepFrom(map, rows, cols, k) ==
  IF k >= rows * cols THEN map
  ELSE LET y == k \div cols
           x == k % cols
           value == SmoothCell(map, x, y, rows, cols)
       IN  SweepFrom([map EXCEPT ![y] = [map[y] EXCEPT ![x] = value]],
                     rows, cols, k + 1)

SweepInPlace(map, rows, cols) == SweepFrom(map, rows, cols, 0)

\* One iteration of the outer loop: every cell is computed from `map`, the
\* grid as it was when the iteration started, into `result`.
Sweep(map, rows, cols) ==
  [y \in 0..(rows - 1) |-> [x \in 0..(cols - 1) |-> SmoothCell(map, x, y, rows, cols)]]

\* Math.max(1, Math.floor(complexity / 25))
Iterations(complexity) == Max(1, complexity \div 25)

AllMaps(rows, cols) == [0..(rows - 1) -> [0..(cols - 1) -> 0..MaxLayerId]]

\* enhanceShapes is entered: result is a copy of map.
GridInit ==
  /\ \E s \in GridShapes, c \in GridComplexities :
       \E m \in AllMaps(s[1], s[2]) :
         grid = [pc |-> "loop", rows |-> s[1], cols |-> s[2], complexity |-> c,
                 iteration |-> 0, input |-> m, prev |-> m, map |-> m, result |-> m]
  /\ GridOthersIdle

\* One pass of `for (iteration ...)`: the sweep, then map := copy of result.
EnhanceIteration ==
  /\ grid.pc = "loop"
  /\ grid.iteration < Iterations(grid.complexity)
  /\ LET r == Sweep(grid.map, grid.rows, grid.cols)
     IN  grid' = [grid EXCEPT !.prev = grid.map, !.result = r, !.map = r,
                              !.iteration = grid.iteration + 1]
  /\ GridOthersUnchanged

\* The loop ends and enhanceShapes returns result.
EnhanceReturn ==
  /\ grid.pc = "loop"
  /\ grid.iteration >= Iterations(grid.complexity)
  /\ grid' = [grid EXCEPT !.pc = "done"]
  /\ GridOthersUnchanged

GridNext == EnhanceIteration \/ EnhanceReturn

(***************************************************************************)
(* Perlin noise singleton (utils/perlin): one PerlinNoise object is        *)
(* created when the module is loaded and every pattern class imports it.   *)
(* A seed is held in units of 2^-16, so that the values Math.random() can  *)
(* return and the product seed * 65536 are integers.                       *)
(***************************************************************************)

\* The value 1.0 in seed units; `seed *= 65536`.
SeedUnit == 65536

permutation ==
  << 151, 160, 137, 91, 90, 15, 131, 13, 201, 95, 96, 53, 194, 233, 7, 225,
     140, 36, 103, 30, 69, 142, 8, 99, 37, 240, 21, 10, 23, 190, 6, 148,
     247, 120, 234, 75, 0, 26, 197, 62, 94, 252, 219, 203, 117, 35, 11, 32,
     57, 177, 33, 88, 237, 149, 56, 87, 174, 20, 125, 136, 171, 168, 68, 175,
     74, 165, 71, 134, 139, 48, 27, 166, 77, 146, 158, 231, 83, 111, 229, 122,
     60, 211, 133, 230, 220, 105, 92, 41, 55, 46, 245, 40, 244, 102, 143, 54,
     65, 25, 63, 161, 1, 216, 80, 73, 209, 76, 132, 187, 208, 89, 18, 169,
     200, 196, 135, 130, 116, 188, 159, 86, 164, 100, 109, 198, 173, 186, 3, 64,
     52, 217, 226, 250, 124, 123, 5, 202, 38, 147, 118, 126, 255, 82, 85, 212,
     207, 206, 59, 227, 47, 16, 58, 17, 182, 189, 28, 42, 223, 183, 170, 213,
     119, 248, 152, 2, 44, 154, 163, 70, 221, 153, 101, 155, 167, 43, 172, 9,
     129, 22, 39, 253, 19, 98, 108, 110, 79, 113, 224, 232, 178, 185, 112, 104,
     218, 246, 97, 228, 251, 34, 242, 193, 238, 210, 144, 12, 191, 179, 162, 241,
     81, 51, 145, 235, 249, 14, 239, 107, 49, 192, 214, 31, 181, 199, 106, 157,
     184, 84, 204, 176, 115, 121, 50, 45, 127, 4, 150, 254, 138, 236, 205, 93,
     222, 114, 67, 29, 24, 72, 243, 141, 128, 195, 78, 66, 215, 61, 156, 180 >>

\* a ^ b and a | b on non-negative integers.
RECURSIVE BitXor(_, _)
BitXor(a, b) ==
  IF a = 0 THEN b
  ELSE IF b = 0 THEN a
  ELSE 2 * BitXor(a \div 2, b \div 2) + ((a + b) % 2)

RECURSIVE BitOr(_, _)
BitOr(a, b) ==
  IF a = 0 THEN b
  ELSE IF b = 0 THEN a
  ELSE 2 * BitOr(a \div 2, b \div 2) + (IF a % 2 = 1 \/ b % 2 = 1 THEN 1 ELSE 0)

\* The first three statements of seed(): scale a seed in (0, 1), floor it,
\* and `seed |= seed << 8` below 256.  Only the low 16 bits of the result are
\* read afterwards; they are returned (two's complement for negative seeds).
SeedWord(value) ==
  LET floored == IF value > 0 /\ value < SeedUnit THEN value ELSE value \div SeedUnit
      low == floored % 65536
  IN  IF floored < 256 THEN BitOr(low, (low * 256) % 65536) ELSE low

\* The loop of seed() with `seed` and `seed >> 8` where it has
\* `seed & 255` and `(seed >> 8) & 255`.
SeedPermUnmasked(value) ==
  LET word == SeedWord(value)
  IN  [i \in 0..511 |->
         LET j == i % 256
         IN  BitXor(permutation[j + 1],
                    IF j % 2 = 1 THEN word ELSE word \div 256)]

\* The loop of seed(): perm[i] = perm[i + 256] = permutation[i] ^ byte, the low
\* byte of the seed for odd i and the high byte for even i.
SeedPerm(value) ==
  LET word == SeedWord(value)
      lowByte == word % 256
      highByte == (word \div 256) % 256
  IN  [i \in 0..511 |->
         LET j == i % 256
         IN  BitXor(permutation[j + 1], IF j % 2 = 1 THEN lowByte ELSE highByte)]

\* The loop of seed() reading this.perm where it reads this.permutation.
seedFromPerm(perlin, value) ==
  IF perlin.perm = << >> THEN [perlin EXCEPT !.perm = SeedPerm(value)]
  ELSE LET word == SeedWord(value)
           lowByte == word % 256
           highByte == (word \div 256) % 256
       IN  [perlin EXCEPT !.perm =
              [i \in 0..511 |->
                 BitXor(perlin.perm[i],
                        IF i % 2 = 1 THEN lowByte ELSE highByte)]]

\* perlin.seed(seed): the table is rewritten whatever it held.  gradP is not
\* kept apart: the same statement of the loop sets gradP[i] to
\* _grad3[perm[i] % 12], so it is a function of perm.
seed(perlin, value) == [perlin EXCEPT !.perm = SeedPerm(value)]

\* new PerlinNoise(): the constructor ends with this.seed(0).
PerlinInit == seed([perm |-> << >>], 0)


(***************************************************************************)
(* Pattern factory and option merging (patternFactory.ts, basePattern.ts   *)
(* and the constructors of the six pattern classes).  A string is a        *)
(* sequence of one-character strings; an options object is a function from *)
(* the names of the properties it owns to their values.  Fractional option *)
(* values are held in hundredths.                                          *)
(***************************************************************************)

UpperCase ==
  << "A", "B", "C", "D", "E", "F", "G", "H", "I", "J", "K", "L", "M",
     "N", "O", "P", "Q", "R", "S", "T", "U", "V", "W", "X", "Y", "Z" >>

LowerCase ==
  << "a", "b", "c", "d", "e", "f", "g", "h", "i", "j", "k", "l", "m",
     "n", "o", "p", "q", "r", "s", "t", "u", "v", "w", "x", "y", "z" >>

\* A comparison of the type string as it was passed.
toLowerCaseSkipped(str) == str

\* String.prototype.toLowerCase on the letters A-Z.
toLowerCase(str) ==
  [i \in 1..Len(str) |->
     IF \E k \in 1..26 : UpperCase[k] = str[i]
       THEN LowerCase[CHOOSE k \in 1..26 : UpperCase[k] = str[i]]
       ELSE str[i]]

woodland == << "w", "o", "o", "d", "l", "a", "n", "d" >>
digital == << "d", "i", "g", "i", "t", "a", "l" >>
tiger == << "t", "i", "g", "e", "r" >>
desert == << "d", "e", "s", "e", "r", "t" >>
urban == << "u", "r", "b", "a", "n" >>
flecktarn == << "f", "l", "e", "c", "k", "t", "a", "r", "n" >>

\* { ...a, ...b }: the properties of b override those of a.
Spread(a, b) ==
  [k \in (DOMAIN a) \cup (DOMAIN b) |-> IF k \in DOMAIN b THEN b[k] ELSE a[k]]

BaseDefaults ==
  [scale |-> 50, complexity |-> 50,
   colors |-> << "#4A7023", "#3B5323", "#78866B", "#A9BA9D", "#000000" >>,
   contrast |-> 50, sharpness |-> 50]

WoodlandDefaults ==
  [scale |-> 50, complexity |-> 50,
   colors |-> << "#4B5320", "#222D12", "#6B8E23", "#7B6E52", "#000000" >>,
   blendMode |-> "source-over"]

DesertDefaults ==
  [colors |-> << "#D4C09E", "#C2B280", "#A68C69", "#856D54", "#4D3B24" >>,
   scale |-> 40, complexity |-> 50, noiseIntensity |-> 20]

UrbanDefaults ==
  [scale |-> 60, complexity |-> 70,
   colors |-> << "#D9D9D9", "#9E9E9E", "#616161", "#212121", "#000000" >>,
   blockiness |-> 80, angularity |-> 70]

DigitalDefaults ==
  [scale |-> 30, complexity |-> 30,
   colors |-> << "#445C2B", "#79573E", "#B7A998", "#1B0E00", "#000000" >>,
   blockSize |-> 10]

TigerDefaults ==
  [scale |-> 50, complexity |-> 70,
   colors |-> << "#8C7E5C", "#505B35", "#000000" >>,
   orientation |-> 45]

FlecktarnDefaults ==
  [scale |-> 40, complexity |-> 80,
   colors |-> << "#4D5D2F", "#313C14", "#6B4C30", "#929367", "#000000" >>,
   blendMode |-> "source-over"]

\* BasePattern constructor: this.options.
BasePatternOptions(options) == Spread(BaseDefaults, options)

\* A WoodlandPattern constructor whose defaults come after ...options.
WoodlandDefaultsLast(options) == BasePatternOptions(Spread(options, WoodlandDefaults))

\* Each constructor spreads its own defaults under the options it was given
\* and hands the result to its superclass.
WoodlandPatternOptions(options) == BasePatternOptions(Spread(WoodlandDefaults, options))

DesertPatternOptions(options) == WoodlandPatternOptions(Spread(DesertDefaults, options))

UrbanPatternOptions(options) == BasePatternOptions(Spread(UrbanDefaults, options))

DigitalPatternOptions(options) == BasePatternOptions(Spread(DigitalDefaults, options))

TigerStripePatternOptions(options) == BasePatternOptions(Spread(TigerDefaults, options))

FlecktarnPatternOptions(options) == BasePatternOptions(Spread(FlecktarnDefaults, options))

\* PatternFactory.createPattern: the class instantiated, the options it ends
\* with and whether the `not recognized` warning was logged.
createPattern(type, options) ==
  LET t == toLowerCase(type)
  IN  CASE t = woodland ->
             [class |-> "WoodlandPattern", options |-> WoodlandPatternOptions(options),
              warned |-> FALSE]
        [] t = digital ->
             [class |-> "DigitalPattern", options |-> DigitalPatternOptions(options),
              warned |-> FALSE]
        [] t = tiger ->
             [class |-> "TigerStripePattern", options |-> TigerStripePatternOptions(options),
              warned |-> FALSE]
        [] t = desert ->
             [class |-> "DesertPattern", options |-> DesertPatternOptions(options),
              warned |-> FALSE]
        [] t = urban ->
             [class |-> "UrbanPattern", options |-> UrbanPatternOptions(options),
              warned |-> FALSE]
        [] t = flecktarn ->
             [class |-> "FlecktarnPattern", options |-> FlecktarnPatternOptions(options),
              warned |-> FALSE]
        [] OTHER ->
             [class |-> "WoodlandPattern", options |-> WoodlandPatternOptions(options),
              warned |-> TRUE]


(***************************************************************************)
(* The drawing passes of generate(): the base fill, then one pass per      *)
(* colour layer the family's generate() reaches.  A pass is recorded with  *)
(* the colour index it reads, the value read and the fill colour the       *)
(* context holds while the pass draws.                                     *)
(***************************************************************************)

\* colors[index]: reading past the end of a JavaScript array gives undefined.
ColorAt(colors, index) ==
  IF index < Len(colors) THEN colors[index + 1] ELSE "undefined"

\* ctx.fillStyle = value: the 2D context ignores a value that is not a colour
\* and keeps the fill style it had.
SetFillStyle(current, value) ==
  IF value = "undefined" THEN current ELSE value

\* Woodland and Flecktarn: layers 1, 2 and 3 are drawn unconditionally, layer
\* 4 only when colors.length > 4.
FixedLayers(colors) ==
  << 1, 2, 3 >> \o (IF Len(colors) > 4 THEN << 4 >> ELSE << >>)

\* TigerStripe: the patches of colors[1] unconditionally, the stripes of
\* colors[2] only when colors.length > 2.
TigerLayers(colors) ==
  << 1 >> \o (IF Len(colors) > 2 THEN << 2 >> ELSE << >>)

\* Desert: for (layer = 1; layer <= Math.min(colors.length - 1, 3); layer++)
DesertLayers(colors) == [k \in 1..Min(Len(colors) - 1, 3) |-> k]

\* Urban and Digital: one pass for each of the layers 1 .. colors.length - 1.
AllLayers(colors) == [k \in 1..(Len(colors) - 1) |-> k]

LayersOf(class, colors) ==
  CASE class = "WoodlandPattern" -> FixedLayers(colors)
    [] class = "FlecktarnPattern" -> FixedLayers(colors)
    [] class = "TigerStripePattern" -> TigerLayers(colors)
    [] class = "DesertPattern" -> DesertLayers(colors)
    [] class = "UrbanPattern" -> AllLayers(colors)
    [] class = "DigitalPattern" -> AllLayers(colors)

RECURSIVE DrawLayers(_, _, _, _)
DrawLayers(layers, colors, fillStyle, passes) ==
  IF layers = << >> THEN passes
  ELSE LET color == ColorAt(colors, Head(layers))
           fill == SetFillStyle(fillStyle, color)
       IN  DrawLayers(Tail(layers), colors, fill,
                      Append(passes, [layer |-> Head(layers), color |-> color, fill |-> fill]))

\* generate(): ctx.fillStyle = colors[0]; fillRect(...); then the layers.
GeneratePasses(class, colors) ==
  DrawLayers(LayersOf(class, colors), colors, colors[1],
             << [layer |-> 0, color |-> colors[1], fill |-> colors[1]] >>)

(***************************************************************************)
(* The library as a state machine: pattern instances are created through   *)
(* the factory and generated later, in any order.                          *)
(***************************************************************************)

\* Pattern instances alive at once.
MaxPatterns == 2

\* Type strings passed to createPattern: the six identifiers of PatternType,
\* then other spellings and strings that name no pattern type.
TypeIds == { woodland, digital, tiger, desert, urban, flecktarn }

OtherTypeInputs ==
  { << "W", "o", "o", "d", "l", "a", "n", "d" >>,
    << "D", "E", "S", "E", "R", "T" >>,
    << "U", "r", "b", "a", "n" >>,
    << "D", "i", "g", "i", "t", "a", "l" >>,
    << "T", "i", "g", "e", "r" >>,
    << "F", "l", "e", "c", "k", "T", "a", "r", "n" >>,
    << "T", "i", "g", "e", "r", "S", "t", "r", "i", "p", "e" >>,
    << "t", "i", "g", "e", "r", "s", "t", "r", "i", "p", "e" >>,
    << "m", "u", "l", "t", "i", "c", "a", "m" >>,
    << >> }

\* The options object PatternCanvas builds from the settings: all five fields.
FullOptions ==
  [scale |-> 10, complexity |-> 100, contrast |-> 80, sharpness |-> 20,
   colors |-> << "#101010", "#202020", "#303030", "#404040", "#505050", "#606060" >>]

\* Options objects passed by the caller.
CallerOptions ==
  { << >>,
    [scale |-> 77],
    [colors |-> << "#101010" >>],
    [complexity |-> 33, colors |-> << "#101010", "#202020" >>],
    [contrast |-> 20, colors |-> << "#101010", "#202020", "#303030" >>],
    FullOptions }

\* The calls of createPattern explored: every identifier with every options
\* object, every other string with no options and with all of them.
Requests ==
  (TypeIds \X CallerOptions) \cup (OtherTypeInputs \X { << >>, FullOptions })

\* Values of Math.random() handed to perlin.seed, in seed units.
SeedDraws == {0, 40000}

\* The module is loaded: the singleton exists, no pattern does.
LibInit ==
  /\ lib = [perlin |-> PerlinInit, patterns |-> << >>]
  /\ LibOthersIdle

\* PatternFactory.createPattern(type, canvas, ctx, options): the constructor
\* chain merges the options and BasePattern reseeds the shared noise object.
NewPattern ==
  /\ Len(lib.patterns) < MaxPatterns
  /\ \E random \in SeedDraws :
       LET perlin == seed(lib.perlin, random)
       IN  \E request \in Requests :
             LET made == createPattern(request[1], request[2])
             IN  lib' = [perlin |-> perlin,
                         patterns |-> Append(lib.patterns,
                            [type |-> request[1], given |-> request[2],
                             class |-> made.class, options |-> made.options,
                             warned |-> made.warned, seeded |-> perlin.perm,
                             generated |-> FALSE, sampled |-> << >>,
                             passes |-> << >>])]
  /\ LibOthersUnchanged

\* pattern.generate(): the layers are drawn and the noise of the texture (and
\* of the shapes) is read from the shared object as it is at that moment.
Generate ==
  /\ \E i \in 1..Len(lib.patterns) :
       LET pattern == lib.patterns[i]
       IN  /\ ~pattern.generated
           /\ lib' = [lib EXCEPT !.patterns[i] =
                        [pattern EXCEPT !.generated = TRUE,
                                        !.sampled = lib.perlin.perm,
                                        !.passes = GeneratePasses(pattern.class,
                                                                  pattern.options.colors)]]
  /\ LibOthersUnchanged

LibNext == NewPattern \/ Generate

(***************************************************************************)
(* Shape replication: the drawing functions of the Woodland, Desert,       *)
(* Urban, Flecktarn and Tiger families draw every shape at the nine        *)
(* offsets {-width, 0, width} x {-height, 0, height}.  Lengths and         *)
(* positions are held in hundredths of a pixel, a value of Math.random()   *)
(* in hundredths, an angle in hundredths of a degree, a cosine or sine in   *)
(* ten-thousandths.  A drawn copy is recorded as the raster position `at`  *)
(* of the point its path is built around (the corner of a rectangle, the   *)
(* centre of a blob, the x and y of a stripe), the values `random` that    *)
(* Math.random() returned while the path of that copy was built, and, for  *)
(* the Urban shapes, the points of the `path` handed to the 2D context.    *)
(***************************************************************************)

\* <canvas width={512} height={512}>
CanvasWidth == 512
CanvasHeight == 512

\* Longest period of a stream of Math.random() values.
MaxPeriod == 4

\* Values Math.random() returns, in hundredths.
RandomValues == {0, 20, 60, 80}

\* A run's Math.random(): the n-th call returns the n-th value of a stream
\* that repeats with a period of at most MaxPeriod.
RandomStreams == UNION {[1..n -> RandomValues] : n \in 1..MaxPeriod}

Random(stream, n) == stream[((n - 1) % Len(stream)) + 1]

\* The values returned by `count` successive calls, from call number `first`.
RandomRun(stream, first, count) ==
  [j \in 1..count |-> Random(stream, first + j - 1)]

\* for (offsetX = -width; offsetX <= width; offsetX += width)
\*   for (offsetY = -height; offsetY <= height; offsetY += height)
TileOffsets(width, height) ==
  [k \in 1..9 |-> <<(((k - 1) \div 3) - 1) * width * 100,
                    (((k - 1) % 3) - 1) * height * 100>>]

\* The unit of the values of Math.sin and Math.cos: 10^-8.
TrigUnit == 100000000

\* Math.sin of 0..90 degrees, in units of 10^-8.
SinTable ==
  << 0, 1745241, 3489950, 5233596, 6975647, 8715574,
     10452846, 12186934, 13917310, 15643447, 17364818, 19080900,
     20791169, 22495105, 24192190, 25881905, 27563736, 29237170,
     30901699, 32556815, 34202014, 35836795, 37460659, 39073113,
     40673664, 42261826, 43837115, 45399050, 46947156, 48480962,
     50000000, 51503807, 52991926, 54463904, 55919290, 57357644,
     58778525, 60181502, 61566148, 62932039, 64278761, 65605903,
     66913061, 68199836, 69465837, 70710678, 71933980, 73135370,
     74314483, 75470958, 76604444, 77714596, 78801075, 79863551,
     80901699, 81915204, 82903757, 83867057, 84804810, 85716730,
     86602540, 87461971, 88294759, 89100652, 89879405, 90630779,
     91354546, 92050485, 92718385, 93358043, 93969262, 94551858,
     95105652, 95630476, 96126170, 96592583, 97029573, 97437006,
     97814760, 98162718, 98480775, 98768834, 99026807, 99254615,
     99452190, 99619470, 99756405, 99862953, 99939083, 99984770,
     100000000 >>

\* The product a * b / 10^8 of two numbers of at most nine digits, rounded
\* to the nearest integer, computed in four-digit halves.
MulUnit(a, b) ==
  LET x == Abs(a)
      y == Abs(b)
      mid == ((x \div 10000) * (y % 10000)) + ((x % 10000) * (y \div 10000))
      low == (x % 10000) * (y % 10000)
      value == ((x \div 10000) * (y \div 10000)) + (mid \div 10000)
               + ((((mid % 10000) * 10000) + low + (TrigUnit \div 2)) \div TrigUnit)
  IN  IF (a >= 0) = (b >= 0) THEN value ELSE 0 - value

\* Math.sin and Math.cos of f hundredths of a degree, 0 <= f < 100, in units
\* of 10^-8: x - x^3 / 6 and 1 - x^2 / 2 + x^4 / 24 for x = f * pi / 18000.
SinSmall(f) ==
  (((f * 17453293) + 500) \div 1000) - RoundDiv(f * f * f * 886, 10000000)

CosSmall(f) ==
  (TrigUnit - (((f * f * 152309) + 50000) \div 100000))
  + RoundDiv(f * f * f * f, 258644000)

\* Math.sin of an angle of the first quadrant given in hundredths of a
\* degree: sin(d + f) = sin d cos f + cos d sin f for d whole degrees.
SinQuadrant(a) ==
  IF a % 100 = 0 THEN SinTable[(a \div 100) + 1]
  ELSE MulUnit(SinTable[(a \div 100) + 1], CosSmall(a % 100))
       + MulUnit(SinTable[91 - (a \div 100)], SinSmall(a % 100))

\* Math.sin and Math.cos, the angle in hundredths of a degree, the value in
\* units of 10^-8 (within 3 units of the double).
MathSin(a) ==
  LET turn == a % 36000
      half == turn % 18000
      value == SinQuadrant(IF half > 9000 THEN 18000 - half ELSE half)
  IN  IF turn >= 18000 THEN 0 - value ELSE value

MathCos(a) == MathSin(a + 9000)

\* Math.sin and Math.cos of a + num / den hundredths of a degree,
\* 0 <= num < den, in units of 10^-8: the value at a and the first-order term
\* of the remaining angle, less than 1.8 * 10^-4 radians.
MathSinPart(a, num, den) ==
  MathSin(a) + MulUnit(MathCos(a), (num * 17453) \div den)

MathCosPart(a, num, den) ==
  MathCos(a) - MulUnit(MathSin(a), (num * 17453) \div den)

\* Math.sin and Math.cos, the angle in hundredths of a degree, the value
\* rounded to ten-thousandths.
Sin(a) == RoundDiv(MathSin(a), 10000)

Cos(a) == RoundDiv(MathCos(a), 10000)

\* The product of a length in hundredths of a pixel and a value in units of
\* 10^-8, rounded to the nearest hundredth of a pixel.
Scaled(length, value) == RoundDiv(MulUnit(length * 100, value), 100)

\* The current transformation of the 2D context: translate(x, y) followed by
\* rotate(angle); a point (a, b) of user space lands at (x, y) + R(angle)(a, b).
IdentityTransform == [x |-> 0, y |-> 0, cos |-> TrigUnit, sin |-> 0]

ApplyTransform(transform, a, b) ==
  << transform.x + RoundDiv(MulUnit(a * 100, transform.cos)
                            - MulUnit(b * 100, transform.sin), 100),
     transform.y + RoundDiv(MulUnit(a * 100, transform.sin)
                            + MulUnit(b * 100, transform.cos), 100) >>

\* ctx.fillRect(x, y, width, height): the path of the rectangle's corners,
\* placed by the context's current transformation.
fillRect(transform, x, y, width, height) ==
  << ApplyTransform(transform, x, y),
     ApplyTransform(transform, x + width, y),
     ApplyTransform(transform, x + width, y + height),
     ApplyTransform(transform, x, y + height) >>

\* BasePattern.drawTiledRect(x, y, width, height): nine fillRect calls.
drawTiledRect(transform, canvasWidth, canvasHeight, x, y, width, height) ==
  Listed([k \in 1..9 |->
     LET offsetX == TileOffsets(canvasWidth, canvasHeight)[k][1]
         offsetY == TileOffsets(canvasWidth, canvasHeight)[k][2]
     IN  [at |-> ApplyTransform(transform, x + offsetX, y + offsetY),
          random |-> << >>,
          path |-> fillRect(transform, x + offsetX, y + offsetY, width, height)]])

\* The nine copies of a path whose construction calls Math.random() `count`
\* times inside the offset loops, the first of them being call `first`; the
\* points of the path are not computed.
TiledPaths(centerX, centerY, width, height, stream, first, count) ==
  [k \in 1..9 |->
     [at |-> << centerX + TileOffsets(width, height)[k][1],
                centerY + TileOffsets(width, height)[k][2] >>,
      random |-> RandomRun(stream, first + ((k - 1) * count), count),
      path |-> << >>]]

\* The smallest rectangle of the raster plane that holds a path.
PathBox(path) ==
  LET xs == {path[i][1] : i \in 1..Len(path)}
      ys == {path[i][2] : i \in 1..Len(path)}
  IN  [minX |-> CHOOSE v \in xs : \A w \in xs : v <= w,
       maxX |-> CHOOSE v \in xs : \A w \in xs : v >= w,
       minY |-> CHOOSE v \in ys : \A w \in ys : v <= w,
       maxY |-> CHOOSE v \in ys : \A w \in ys : v >= w]

InBox(box, point) ==
  /\ box.minX <= point[1] /\ point[1] <= box.maxX
  /\ box.minY <= point[2] /\ point[2] <= box.maxY

\* The point lies to the left of the edge from a to b.
LeftOf(a, b, point) ==
  ((b[1] - a[1]) * (point[2] - a[2])) - ((point[1] - a[1]) * (b[2] - a[2])) > 0

RightOf(a, b, point) ==
  ((b[1] - a[1]) * (point[2] - a[2])) - ((point[1] - a[1]) * (b[2] - a[2])) < 0

\* ctx.fill() of a closed path, nonzero winding rule: the number of edges
\* that pass the point upwards on its right less the number that pass it
\* downwards; the point is inside when the number is not zero.
Winding(path, point) ==
  LET next(i) == path[(i % Len(path)) + 1]
  IN  Cardinality({i \in 1..Len(path) :
                     /\ path[i][2] <= point[2] /\ point[2] < next(i)[2]
                     /\ LeftOf(path[i], next(i), point)})
      - Cardinality({i \in 1..Len(path) :
                     /\ next(i)[2] <= point[2] /\ point[2] < path[i][2]
                     /\ RightOf(path[i], next(i), point)})

InPath(path, box, point) == InBox(box, point) /\ Winding(path, point) # 0

\* The centre of raster pixel p, in hundredths.
PixelCentre(p) == <<(p[1] * 100) + 50, (p[2] * 100) + 50>>

\* const blockSize = scale * 0.3
BlockSize(scale) == 30 * scale

\* UrbanPattern.drawUrbanRect(width, height, blockSize), Math.random() being
\* at call number `first`: the copies and the number of calls made.
drawUrbanRect(width, height, blockSize, stream, first) ==
  LET w == (blockSize * (100 + (Random(stream, first) * 3))) \div 100
      h == (blockSize * (100 + (Random(stream, first + 1) * 3))) \div 100
      x == Random(stream, first + 2) * width
      y == Random(stream, first + 3) * height
      turned == Random(stream, first + 4) > 50
      rotation == IF turned THEN 45 * Random(stream, first + 5) ELSE 0
      transform == [x |-> x, y |-> y, cos |-> MathCos(rotation),
                    sin |-> MathSin(rotation)]
  IN  [used |-> IF turned THEN 6 ELSE 5,
       rect |-> [w |-> w, h |-> h, cos |-> Cos(rotation), sin |-> Sin(rotation)],
       copies |-> IF rotation # 0
                  THEN drawTiledRect(transform, width, height,
                                     0 - (w \div 2), 0 - (h \div 2), w, h)
                  ELSE drawTiledRect(IdentityTransform, width, height,
                                     x - (w \div 2), y - (h \div 2), w, h)]

\* The triangle of one copy: angle1, angle2 and angle3 from three successive
\* Math.random() calls.
TrianglePath(x, y, size, random) ==
  LET angle1 == 360 * random[1]
      angle2 == angle1 + 9000 + (90 * random[2])
      angle3 == angle2 + 9000 + (90 * random[3])
  IN  << <<x + Scaled(size, MathCos(angle1)), y + Scaled(size, MathSin(angle1))>>,
         <<x + Scaled(size, MathCos(angle2)), y + Scaled(size, MathSin(angle2))>>,
         <<x + Scaled(size, MathCos(angle3)), y + Scaled(size, MathSin(angle3))>> >>

\* UrbanPattern.drawUrbanTriangle(width, height, blockSize)
drawUrbanTriangle(width, height, blockSize, stream, first) ==
  LET size == (blockSize * (200 + (Random(stream, first) * 3))) \div 100
      centerX == Random(stream, first + 1) * width
      centerY == Random(stream, first + 2) * height
  IN  [used |-> 3 + (9 * 3),
       rect |-> << >>,
       copies |->
         Listed([k \in 1..9 |->
            LET x == centerX + TileOffsets(width, height)[k][1]
                y == centerY + TileOffsets(width, height)[k][2]
                random == RandomRun(stream, first + 3 + ((k - 1) * 3), 3)
            IN  [at |-> <<x, y>>, random |-> random,
                 path |-> TrianglePath(x, y, size, random)]])]

\* The polygon of one copy: vertex i = 0..sides at startAngle + i * angleStep
\* and at the radius size * (0.8 + Math.random() * 0.4), kept in millionths
\* of a pixel until the point is rounded; angleStep = 2 pi / sides is a whole
\* number of hundredths of a degree plus part / sides.
PolygonPath(x, y, size, sides, startAngle, random) ==
  Listed([v \in 1..(sides + 1) |->
     LET angle == startAngle + (((v - 1) * 36000) \div sides)
         part == ((v - 1) * 36000) % sides
         radiusVariation == size * (8000 + (random[v] * 40))
     IN  <<x + RoundDiv(MulUnit(radiusVariation, MathCosPart(angle, part, sides)),
                        10000),
           y + RoundDiv(MulUnit(radiusVariation, MathSinPart(angle, part, sides)),
                        10000)>>])

\* UrbanPattern.drawUrbanPolygon(width, height, blockSize)
drawUrbanPolygon(width, height, blockSize, stream, first) ==
  LET size == (blockSize * (150 + (Random(stream, first) * 2))) \div 100
      centerX == Random(stream, first + 1) * width
      centerY == Random(stream, first + 2) * height
      sides == 4 + ((Random(stream, first + 3) * 4) \div 100)
      startAngle == 360 * Random(stream, first + 4)
  IN  [used |-> 5 + (9 * (sides + 1)),
       rect |-> << >>,
       copies |->
         Listed([k \in 1..9 |->
            LET x == centerX + TileOffsets(width, height)[k][1]
                y == centerY + TileOffsets(width, height)[k][2]
                random == RandomRun(stream, first + 5 + ((k - 1) * (sides + 1)),
                                    sides + 1)
            IN  [at |-> <<x, y>>, random |-> random,
                 path |-> PolygonPath(x, y, size, sides, startAngle, random)]])]

\* Scales, shape centres (centerX, centerY), radii and point counts passed
\* to the drawing functions.
ShapeScales == {10, 60, 100}

ShapeCentres == {<<5120, 5120>>, <<25600, 40960>>}

ShapeCalls ==
  [fn : {"drawUrbanRect", "drawUrbanTriangle", "drawUrbanPolygon"},
   width : {CanvasWidth}, height : {CanvasHeight}, scale : ShapeScales]
  \cup
  [fn : {"drawWoodlandShape"}, width : {CanvasWidth}, height : {CanvasHeight},
   centre : ShapeCentres, radius : {12000}, points : {6, 12}]
  \cup
  [fn : {"drawDesertShape"}, width : {CanvasWidth}, height : {CanvasHeight},
   centre : ShapeCentres, radius : {12000}, points : {5, 8}]
  \cup
  [fn : {"drawFlecktarnSpot"}, width : {CanvasWidth}, height : {CanvasHeight},
   centre : ShapeCentres, radius : {2000}]
  \cup
  [fn : {"generateTigerPatches", "drawTigerStripe"},
   width : {CanvasWidth}, height : {CanvasHeight}, centre : ShapeCentres]

\* A drawing function is about to be called.
ShapeInit ==
  /\ \E call \in ShapeCalls, stream \in RandomStreams :
       shape = [pc |-> "call", call |-> call, stream |-> stream, used |-> 0,
                rect |-> << >>, copies |-> << >>]
  /\ ShapeOthersIdle

\* The call has returned: its copies, and the number of Math.random() calls.
Drawn(copies, used, rect) ==
  shape' = [shape EXCEPT !.pc = "drawn", !.copies = copies, !.used = used,
                         !.rect = rect]

\* A call of UrbanPattern.drawUrbanRect.
DrawUrbanRect ==
  /\ shape.pc = "call"
  /\ shape.call.fn = "drawUrbanRect"
  /\ LET drawn == drawUrbanRect(shape.call.width, shape.call.height,
                                BlockSize(shape.call.scale), shape.stream, 1)
     IN  Drawn(drawn.copies, drawn.used, drawn.rect)
  /\ ShapeOthersUnchanged

\* A call of UrbanPattern.drawUrbanTriangle.
DrawUrbanTriangle ==
  /\ shape.pc = "call"
  /\ shape.call.fn = "drawUrbanTriangle"
  /\ LET drawn == drawUrbanTriangle(shape.call.width, shape.call.height,
                                    BlockSize(shape.call.scale), shape.stream, 1)
     IN  Drawn(drawn.copies, drawn.used, drawn.rect)
  /\ ShapeOthersUnchanged

\* A call of UrbanPattern.drawUrbanPolygon.
DrawUrbanPolygon ==
  /\ shape.pc = "call"
  /\ shape.call.fn = "drawUrbanPolygon"
  /\ LET drawn == drawUrbanPolygon(shape.call.width, shape.call.height,
                                   BlockSize(shape.call.scale), shape.stream, 1)
     IN  Drawn(drawn.copies, drawn.used, drawn.rect)
  /\ ShapeOthersUnchanged

\* WoodlandPattern.drawWoodlandShape(centerX, centerY, radius, points, ...):
\* one cpAngleVariation for each of the `points` curve segments of a copy.
DrawWoodlandShape ==
  /\ shape.pc = "call"
  /\ shape.call.fn = "drawWoodlandShape"
  /\ Drawn(TiledPaths(shape.call.centre[1], shape.call.centre[2],
                      shape.call.width, shape.call.height, shape.stream, 1,
                      shape.call.points),
           9 * shape.call.points, << >>)
  /\ ShapeOthersUnchanged

\* DesertPattern.drawDesertShape(centerX, centerY, radius, points): the path
\* is a function of the arguments and of the noise field only.
DrawDesertShape ==
  /\ shape.pc = "call"
  /\ shape.call.fn = "drawDesertShape"
  /\ Drawn(TiledPaths(shape.call.centre[1], shape.call.centre[2],
                      shape.call.width, shape.call.height, shape.stream, 1, 0),
           0, << >>)
  /\ ShapeOthersUnchanged

\* Math.random() calls made for the vertices i..points of one Flecktarn
\* spot copy, `next` being the number of the first of them: the angle at
\* i = 0; then angle, prevAngle and the line-or-curve draw, and two control
\* point draws when the segment is a curve.
RECURSIVE SpotDraws(_, _, _, _)
SpotDraws(stream, next, i, points) ==
  IF i > points THEN 0
  ELSE IF i = 0 THEN 1 + SpotDraws(stream, next + 1, 1, points)
  ELSE LET count == IF Random(stream, next + 2) > 50 THEN 3 ELSE 5
       IN  count + SpotDraws(stream, next + count, i + 1, points)

\* The offset loops of drawFlecktarnSpot, from copy number Len(copies) + 1.
RECURSIVE SpotCopies(_, _, _, _, _)
SpotCopies(call, stream, points, next, copies) ==
  IF Len(copies) = 9 THEN [copies |-> copies, used |-> next - 1]
  ELSE LET offset == TileOffsets(call.width, call.height)[Len(copies) + 1]
           count == SpotDraws(stream, next, 0, points)
       IN  SpotCopies(call, stream, points, next + count,
                      Append(copies,
                             [at |-> << call.centre[1] + offset[1],
                                        call.centre[2] + offset[2] >>,
                              random |-> RandomRun(stream, next, count),
                              path |-> << >>]))

\* FlecktarnPattern.drawFlecktarnSpot(centerX, centerY, radius, irregularity)
DrawFlecktarnSpot ==
  /\ shape.pc = "call"
  /\ shape.call.fn = "drawFlecktarnSpot"
  /\ LET points == 5 + ((Random(shape.stream, 1) * 5) \div 100)
         spot == SpotCopies(shape.call, shape.stream, points, 2, << >>)
     IN  Drawn(spot.copies, spot.used, << >>)
  /\ ShapeOthersUnchanged

\* One stripe patch of TigerStripePattern.generateTigerPatches: stripePoints
\* is computed once and every copy adds the offset to each of its points.
DrawTigerPatch ==
  /\ shape.pc = "call"
  /\ shape.call.fn = "generateTigerPatches"
  /\ Drawn(TiledPaths(shape.call.centre[1], shape.call.centre[2],
                      shape.call.width, shape.call.height, shape.stream, 1, 0),
           0, << >>)
  /\ ShapeOthersUnchanged

\* TigerStripePattern.drawTigerStripe(x, y, length, width, dirX, dirY, ...):
\* pointCount is drawn once, before stripePoints is computed.
DrawTigerStripe ==
  /\ shape.pc = "call"
  /\ shape.call.fn = "drawTigerStripe"
  /\ Drawn(TiledPaths(shape.call.centre[1], shape.call.centre[2],
                      shape.call.width, shape.call.height, shape.stream, 2, 0),
           1, << >>)
  /\ ShapeOthersUnchanged

ShapeNext ==
  \/ DrawUrbanRect
  \/ DrawUrbanTriangle
  \/ DrawUrbanPolygon
  \/ DrawWoodlandShape
  \/ DrawDesertShape
  \/ DrawFlecktarnSpot
  \/ DrawTigerPatch
  \/ DrawTigerStripe

(***************************************************************************)
(* The finished raster: an Urban pattern is constructed with its default   *)
(* options, generated (base fill, shapes layer by layer, texture),         *)
(* post-processed and handed to verifySeamless.  The model keeps the       *)
(* pixels verifySeamless reads, the first and last column and row of the   *)
(* raster; fill, texture and contrast change a pixel from that pixel       *)
(* alone.  A pixel is an <<r, g, b>> triple; a shape covers the pixels     *)
(* whose centre lies in its path.                                          *)
(***************************************************************************)

\* Longest period of a stream of Math.random() values in a generation.
MaxRasterPeriod == 2

RasterStreams == UNION {[1..n -> RandomValues] : n \in 1..MaxRasterPeriod}

\* settings.contrast handed to applyPostProcessing: the pattern's default
\* and the page's initial setting.
PostContrasts == {50, 60}

Sides == {"left", "right", "top", "bottom"}

\* The t-th pixel of a side of the raster.
PixelAt(side, t, width, height) ==
  CASE side = "left" -> <<0, t>>
    [] side = "right" -> <<width - 1, t>>
    [] side = "top" -> <<t, 0>>
    [] side = "bottom" -> <<t, height - 1>>

SideLength(side, width, height) ==
  IF side \in {"left", "right"} THEN height ELSE width

\* The 2D context's reading of a fillStyle string.
ParseColor(hex) ==
  CASE hex = "#D9D9D9" -> <<217, 217, 217>>
    [] hex = "#9E9E9E" -> <<158, 158, 158>>
    [] hex = "#616161" -> <<97, 97, 97>>
    [] hex = "#212121" -> <<33, 33, 33>>
    [] hex = "#000000" -> <<0, 0, 0>>
    [] hex = "#4A7023" -> <<74, 112, 35>>
    [] hex = "#3B5323" -> <<59, 83, 35>>
    [] hex = "#78866B" -> <<120, 134, 107>>
    [] hex = "#A9BA9D" -> <<169, 186, 157>>

\* ctx.fillRect(0, 0, width, height) in the base colour.
FillAll(color, width, height) ==
  [side \in Sides |-> [t \in 0..(SideLength(side, width, height) - 1) |-> color]]

\* The box of a path meets the line of pixel centres of a side.
BoxMeetsSide(box, side, width, height) ==
  CASE side = "left" -> box.minX <= 50 /\ 50 <= box.maxX
    [] side = "right" -> box.minX <= ((width - 1) * 100) + 50
                         /\ ((width - 1) * 100) + 50 <= box.maxX
    [] side = "top" -> box.minY <= 50 /\ 50 <= box.maxY
    [] side = "bottom" -> box.minY <= ((height - 1) * 100) + 50
                          /\ ((height - 1) * 100) + 50 <= box.maxY

\* ctx.fill() / ctx.fillRect() of the nine copies in the current fillStyle.
FillCopies(edges, copies, color, width, height) ==
  LET boxes == Listed([k \in 1..9 |-> PathBox(copies[k].path)])
  IN  [side \in Sides |->
         LET near == {k \in 1..9 : BoxMeetsSide(boxes[k], side, width, height)}
         IN  IF near = {} THEN edges[side]
             ELSE [t \in 0..(SideLength(side, width, height) - 1) |->
                     IF \E k \in near :
                          InPath(copies[k].path, boxes[k],
                                 PixelCentre(PixelAt(side, t, width, height)))
                     THEN color
                     ELSE edges[side][t]]]

\* PerlinNoise._grad3
grad3 ==
  << <<1, 1, 0>>, <<-1, 1, 0>>, <<1, -1, 0>>, <<-1, -1, 0>>,
     <<1, 0, 1>>, <<-1, 0, 1>>, <<1, 0, -1>>, <<-1, 0, -1>>,
     <<0, 1, 1>>, <<0, -1, 1>>, <<0, 1, -1>>, <<0, -1, -1>> >>

\* this.gradP[i] = this._grad3[v % 12]
gradP(perm, i) == grad3[(perm[i] % 12) + 1]

\* PerlinNoise._dot2
dot2(g, x, y) == (g[1] * x) + (g[2] * y)

\* The value 1.0 of the fade curve, 20^5: _fade(t) of a whole number of
\* twentieths is a whole number of these units.
FadeUnit == 3200000

\* 20 * FadeUnit^2 / 10^9: the divisor that takes a product of a fade weight
\* and an inner interpolation to units of 10^-9.
NoiseDivisor == 204800

\* PerlinNoise._fade(t) = t * t * t * (t * (t * 6 - 15) + 10), t in
\* twentieths, the value in units of 1 / FadeUnit.
fade(t) == t * t * t * ((t * ((t * 6) - 300)) + 4000)

\* PerlinNoise._lerp(a, b, t) = (1 - t) * a + t * b, t in units of
\* 1 / FadeUnit: the value is in units FadeUnit times finer than a and b.
lerp(a, b, t) == ((FadeUnit - t) * a) + (t * b)

\* The product weight * value / NoiseDivisor of the outer _lerp, for a weight
\* of at most FadeUnit: <<whole, rest>> with the product equal to
\* whole + rest / NoiseDivisor.
NoisePart(weight, value) ==
  LET a == value \div NoiseDivisor
      r == value % NoiseDivisor
      c == weight \div 2048
      d == weight % 2048
  IN  << (weight * a) + ((c * r) \div 100) + ((d * r) \div NoiseDivisor),
         (((c * r) % 100) * 2048) + ((d * r) % NoiseDivisor) >>

\* PerlinNoise.noise2D(x, y), x and y in twentieths (x * 0.05 for a pixel
\* coordinate x); the value is rounded to units of 10^-9.
noise2DFine(perm, x, y) ==
  LET X == (x \div 20) % 256
      Y == (y \div 20) % 256
      fx == x % 20
      fy == y % 20
      n00 == dot2(gradP(perm, X + perm[Y]), fx, fy)
      n01 == dot2(gradP(perm, X + perm[Y + 1]), fx, fy - 20)
      n10 == dot2(gradP(perm, X + 1 + perm[Y]), fx - 20, fy)
      n11 == dot2(gradP(perm, X + 1 + perm[Y + 1]), fx - 20, fy - 20)
      u == fade(fx)
      v == fade(fy)
      low == NoisePart(FadeUnit - v, lerp(n00, n10, u))
      high == NoisePart(v, lerp(n01, n11, u))
  IN  low[1] + high[1] + ((low[2] + high[2] + (NoiseDivisor \div 2)) \div NoiseDivisor)

\* PerlinNoise.noise2D(x, y) in units of 1 / 20 000 000.
noise2D(perm, x, y) == (noise2DFine(perm, x, y) + 25) \div 50

\* PerlinNoise._dot2, _fade and _lerp on doubles, every operation rounded as
\* the code's.
dot2Double(g, x, y) ==
  DoubleAdd(DoubleMul(DoubleOfInt(g[1]), x), DoubleMul(DoubleOfInt(g[2]), y))

fadeDouble(t) ==
  DoubleMul(DoubleMul(DoubleMul(t, t), t),
            DoubleAdd(DoubleMul(t, DoubleSub(DoubleMul(t, DoubleOfInt(6)),
                                             DoubleOfInt(15))),
                      DoubleOfInt(10)))

lerpDouble(a, b, t) ==
  DoubleAdd(DoubleMul(DoubleSub(DoubleOfInt(1), t), a), DoubleMul(t, b))

\* PerlinNoise.noise2D(x, y) for doubles x and y, as a double, in the
\* code's order.  noiseBlend is its return statement: the dot products of
\* the four corner gradients of cell (X, Y) with the offsets (fx, fy),
\* (fx1, fy) = (fx - 1, fy) and so on, interpolated by u and v.
noiseBlend(perm, X, Y, fx, fy, fx1, fy1, u, v) ==
  lerpDouble(lerpDouble(dot2Double(gradP(perm, X + perm[Y]), fx, fy),
                        dot2Double(gradP(perm, X + 1 + perm[Y]), fx1, fy), u),
             lerpDouble(dot2Double(gradP(perm, X + perm[Y + 1]), fx, fy1),
                        dot2Double(gradP(perm, X + 1 + perm[Y + 1]), fx1, fy1),
                        u),
             v)

\* X = X & 255, Y = Y & 255, u = fade(x): the cell wrapped to 0..255 and
\* the fades of the offsets (fx, fy) within it.
noiseWithin(perm, floorX, floorY, fx, fy) ==
  noiseBlend(perm, floorX % 256, floorY % 256, fx, fy,
             DoubleSub(fx, DoubleOfInt(1)), DoubleSub(fy, DoubleOfInt(1)),
             fadeDouble(fx), fadeDouble(fy))

\* x = x - X, y = y - Y: the offsets of the point within its cell.
noiseCell(perm, x, y, floorX, floorY) ==
  noiseWithin(perm, floorX, floorY, DoubleSub(x, DoubleOfInt(floorX)),
              DoubleSub(y, DoubleOfInt(floorY)))

\* X = Math.floor(x), Y = Math.floor(y): the cell of the point.
noise2DDouble(perm, x, y) ==
  noiseCell(perm, x, y, DoubleFloor(x), DoubleFloor(y))

\* Math.round(a * unit): the double a in whole units of 1 / unit.
DoubleScaled(a, unit) ==
  DoubleFloor(DoubleAdd(DoubleMul(a, DoubleOfInt(unit)), DoubleOfRatio(1, 2)))

\* A channel value in millionths stored into a Uint8ClampedArray: clamped
\* to 0..255 and rounded to the nearest integer, halves to the even one.
ToUint8Clamped(millionths) ==
  LET clamped == Max(0, Min(255000000, millionths))
      whole == clamped \div 1000000
      part == clamped % 1000000
  IN  IF part > 500000 \/ (part = 500000 /\ whole % 2 = 1) THEN whole + 1
      ELSE whole

\* urbanNoise * intensity * 255 at pixel (x, y), rounded to millionths;
\* intensity in hundredths, noiseScale in twentieths.  With noise1 and noise2
\* the two values of noise2D in units of 10^-9, urbanNoise =
\* (noise1 * 2 - 1) * 0.6 + (noise2 * 2 - 1) * 0.4 and the product is
\* intensity * ((306 * noise1 + 204 * noise2) / 100 000 - 2 550 000).
UrbanNoiseDelta(perm, x, y, intensity, noiseScale) ==
  LET noise1 == noise2DFine(perm, x * noiseScale, y * noiseScale)
      noise2 == noise2DFine(perm, x * noiseScale * 3, y * noiseScale * 3)
      whole == (306 * (noise1 \div 100000)) + (204 * (noise2 \div 100000))
      rest == (306 * (noise1 % 100000)) + (204 * (noise2 % 100000))
  IN  (intensity * whole) + (((intensity * rest) + 50000) \div 100000)
      - (intensity * 2550000)

\* perlin.noise2D(x, y) * 2 - 1
UrbanOctave(perm, x, y) ==
  DoubleSub(DoubleMul(noise2DDouble(perm, x, y), DoubleOfInt(2)), DoubleOfInt(1))

\* urbanNoise = noise1 * 0.6 + noise2 * 0.4 at the scaled point (sx, sy) =
\* (x * noiseScale, y * noiseScale), noise2 taken at three times the
\* frequency.
UrbanNoiseDouble(perm, sx, sy) ==
  DoubleAdd(DoubleMul(UrbanOctave(perm, sx, sy), DoubleOfRatio(6, 10)),
            DoubleMul(UrbanOctave(perm, DoubleMul(sx, DoubleOfInt(3)),
                                  DoubleMul(sy, DoubleOfInt(3))),
                      DoubleOfRatio(4, 10)))

\* Math.max(0, Math.min(255, sum)) stored into the Uint8ClampedArray.
UrbanClampDouble(sum) ==
  IF DoubleLess(sum, DoubleZero) THEN 0
  ELSE IF DoubleLess(DoubleOfInt(255), sum) THEN 255
  ELSE DoubleRoundHalfEven(sum)

\* Math.max(0, Math.min(255, value + urbanNoise * intensity * 255)) at pixel
\* (x, y) as the code computes it in doubles, stored into the
\* Uint8ClampedArray; intensity in hundredths, noiseScale in twentieths.
UrbanStoreDouble(perm, x, y, intensity, noiseScale, value) ==
  UrbanClampDouble(
    DoubleAdd(DoubleOfInt(value),
              DoubleMul(DoubleMul(UrbanNoiseDouble(
                                    perm,
                                    DoubleMul(DoubleOfInt(x),
                                              DoubleOfRatio(noiseScale, 20)),
                                    DoubleMul(DoubleOfInt(y),
                                              DoubleOfRatio(noiseScale, 20))),
                                  DoubleOfRatio(intensity, 100)),
                        DoubleOfInt(255))))

\* UrbanPattern.addUrbanTexture(intensity, noiseScale).  The stored value is
\* the rounding of the exact sum, but where that sum lies within a millionth
\* of the middle between two integers the doubles of the code decide.
addUrbanTexture(edges, perm, intensity, noiseScale, width, height) ==
  [side \in Sides |->
     [t \in 0..(SideLength(side, width, height) - 1) |->
        LET pixel == PixelAt(side, t, width, height)
            delta == UrbanNoiseDelta(perm, pixel[1], pixel[2], intensity, noiseScale)
            Stored(value) ==
              LET sum == (value * 1000000) + delta
              IN  IF /\ sum > 0 /\ sum < 255000000
                     /\ Abs((sum % 1000000) - 500000) <= 1
                  THEN UrbanStoreDouble(perm, pixel[1], pixel[2], intensity,
                                        noiseScale, value)
                  ELSE ToUint8Clamped(sum)
        IN  [j \in 1..3 |-> Stored(edges[side][t][j])]]]

\* The inputs <<value, contrast>> at which 128 + (value - 128) * contrastFactor
\* is a tie k + 0.5 in exact arithmetic while the double the code computes
\* lies just below it, and those at which it lies just above.
ContrastTiesBelow == {<<3, 8>>, <<3, 32>>, <<13, 60>>, <<33, 60>>}
ContrastTiesAbove == {<<38, 65>>, <<53, 88>>}

\* newValue = 128 + (value - 128) * contrastFactor, in millionths, with
\* contrastFactor = 1 + (contrast - 50) / 100.
ContrastNewValue(value, contrast) ==
  LET exact == (128 * 1000000) + ((value - 128) * (100 + (contrast - 50)) * 10000)
  IN  IF <<value, contrast>> \in ContrastTiesBelow THEN exact - 1
      ELSE IF <<value, contrast>> \in ContrastTiesAbove THEN exact + 1
      ELSE exact

\* The same store without the clamp.
ContrastValueUnclamped(value, contrast) ==
  LET millionths == ContrastNewValue(value, contrast)
  IN  (millionths + 500000) \div 1000000

\* data[i + j] = Math.max(0, Math.min(255, newValue)): the value the
\* Uint8ClampedArray holds afterwards.
ContrastValue(value, contrast) ==
  ToUint8Clamped(ContrastNewValue(value, contrast))

\* applyPostProcessing(canvas, ctx, contrast, sharpness) for a sharpness of
\* at most 50, on the pixels verifySeamless reads.
applyPostProcessing(edges, contrast, width, height) ==
  [side \in Sides |->
     [t \in 0..(SideLength(side, width, height) - 1) |->
        [j \in 1..3 |-> ContrastValue(edges[side][t][j], contrast)]]]

\* The mismatchCount a seam check of verifySeamless reaches when it is not
\* cut short: channels that differ by more than 10 between two sides.
Mismatches(edges, a, b, length) ==
  Cardinality({c \in (0..(length - 1)) \X (1..3) :
                 Abs(edges[a][c[1]][c[2]] - edges[b][c[1]][c[2]]) > 10})

\* verifySeamless(canvas)
verifySeamless(edges, width, height) ==
  LET maxMismatchTolerance == ((width + height) * 2) \div 100
      leftRightMatch ==
        Mismatches(edges, "left", "right", height) <= maxMismatchTolerance
      topBottomMatch ==
        Mismatches(edges, "top", "bottom", width) <= maxMismatchTolerance
  IN  leftRightMatch /\ topBottomMatch

\* const shapes = Math.floor(complexity * 0.4)
ShapeCount(complexity) == (complexity * 4) \div 10

\* The settings generatePattern reads: the urban preset with either contrast,
\* and urban settings whose scale, complexity, contrast, sharpness and colours
\* have been set through the controls to the values the page starts with.
RasterSettings ==
  { [patternType |-> urban, scale |-> UrbanDefaults.scale,
     complexity |-> UrbanDefaults.complexity, colors |-> UrbanDefaults.colors,
     contrast |-> contrast, sharpness |-> 50] : contrast \in PostContrasts }
  \cup
  { [patternType |-> urban, scale |-> 50, complexity |-> 60,
     colors |-> << "#4A7023", "#3B5323", "#78866B", "#A9BA9D", "#000000" >>,
     contrast |-> 60, sharpness |-> 50] }

\* const patternOptions = {scale, complexity, colors, contrast, sharpness}
PatternOptions(settings) ==
  [scale |-> settings.scale, complexity |-> settings.complexity,
   colors |-> settings.colors, contrast |-> settings.contrast,
   sharpness |-> settings.sharpness]

\* PatternFactory.createPattern(settings.patternType, canvas, ctx,
\* patternOptions) has returned: the options are the settings over the
\* defaults, the contrast handed to post-processing is settings.contrast, and
\* the noise object has been seeded with the first Math.random() value.
RasterInit ==
  /\ \E stream \in RasterStreams, settings \in RasterSettings :
       raster = [pc |-> "created", width |-> CanvasWidth, height |-> CanvasHeight,
                 options |-> createPattern(settings.patternType,
                                           PatternOptions(settings)).options,
                 stream |-> stream, used |-> 1, contrast |-> settings.contrast,
                 perlin |-> seed(PerlinInit,
                                 (Random(stream, 1) * SeedUnit) \div 100),
                 layer |-> 0, i |-> 0, edges |-> << >>, isSeamless |-> TRUE]
  /\ RasterOthersIdle

\* UrbanPattern.generate(): the canvas is filled with colors[0].
FillBase ==
  /\ raster.pc = "created"
  /\ raster' = [raster EXCEPT
                  !.pc = "shapes", !.layer = 1, !.i = 0,
                  !.edges = FillAll(ParseColor(raster.options.colors[1]),
                                    raster.width, raster.height)]
  /\ RasterOthersUnchanged

\* One pass of the inner loop of generate(): a rectangle, a triangle or a
\* polygon in colors[layer]; after the last shape of the last layer the
\* texture follows.
DrawShape ==
  /\ raster.pc = "shapes"
  /\ LET shapes == ShapeCount(raster.options.complexity)
         blockSize == BlockSize(raster.options.scale)
         shapeType == Random(raster.stream, raster.used + 1)
         drawn == IF shapeType < 50
                  THEN drawUrbanRect(raster.width, raster.height, blockSize,
                                     raster.stream, raster.used + 2)
                  ELSE IF shapeType < 80
                  THEN drawUrbanTriangle(raster.width, raster.height, blockSize,
                                         raster.stream, raster.used + 2)
                  ELSE drawUrbanPolygon(raster.width, raster.height, blockSize,
                                        raster.stream, raster.used + 2)
         lastOfLayer == raster.i + 1 = shapes
         lastLayer == raster.layer + 1 = Len(raster.options.colors)
     IN  raster' = [raster EXCEPT
                      !.used = raster.used + 1 + drawn.used,
                      !.edges = FillCopies(raster.edges, drawn.copies,
                                           ParseColor(raster.options.colors[raster.layer + 1]),
                                           raster.width, raster.height),
                      !.i = IF lastOfLayer THEN 0 ELSE raster.i + 1,
                      !.layer = IF lastOfLayer THEN raster.layer + 1 ELSE raster.layer,
                      !.pc = IF lastOfLayer /\ lastLayer THEN "texture" ELSE "shapes"]
  /\ RasterOthersUnchanged

\* this.addUrbanTexture(0.1, 0.05), the last statement of generate().
AddUrbanTexture ==
  /\ raster.pc = "texture"
  /\ raster' = [raster EXCEPT
                  !.pc = "post",
                  !.edges = addUrbanTexture(raster.edges, raster.perlin.perm, 10, 1,
                                            raster.width, raster.height)]
  /\ RasterOthersUnchanged

\* applyPostProcessing(canvas, ctx, settings.contrast, settings.sharpness)
ApplyPostProcessing ==
  /\ raster.pc = "post"
  /\ raster' = [raster EXCEPT
                  !.pc = "verify",
                  !.edges = applyPostProcessing(raster.edges, raster.contrast,
                                                raster.width, raster.height)]
  /\ RasterOthersUnchanged

\* setIsSeamless(verifySeamless(canvas))
VerifySeamless ==
  /\ raster.pc = "verify"
  /\ raster' = [raster EXCEPT
                  !.pc = "done",
                  !.isSeamless = verifySeamless(raster.edges, raster.width,
                                                raster.height)]
  /\ RasterOthersUnchanged

RasterNext ==
  \/ FillBase
  \/ DrawShape
  \/ AddUrbanTexture
  \/ ApplyPostProcessing
  \/ VerifySeamless

(***************************************************************************)
(* PatternCanvas: the generation effect and the deferred writes to the     *)
(* tiled background (components/PatternCanvas, hosted by app/page.tsx).    *)
(* A settings object is [request, content, seed]: `request` is the ordinal *)
(* of the setSettings call that produced the object, `content` stands for  *)
(* the compared properties (patternType, scale, complexity, contrast,      *)
(* sharpness, colors) and `seed` for _seed.  Every generation paints a new *)
(* image (the generators draw from Math.random): the image and the data    *)
(* URL taken from it are named by the ordinal of the generation, and       *)
(* cv.runs[n] is the request of the settings that generation n read.  0 is *)
(* the blank canvas, the null patternDataUrl and the background without an *)
(* image; a negative number is a data URL that an earlier session left in  *)
(* localStorage.  Times are in milliseconds and window sizes in pixels.    *)
(* The host passes fullscreenPreview={true}, which hides the preview       *)
(* toggle, and keys the component by settings._seed and the window size.   *)
(* A generation that finds no 2D context or throws publishes nothing; the  *)
(* canvas of one that throws is left cleared or partly painted, and is     *)
(* named by the ordinal of the generation like a finished image.  React    *)
(* commits a new instance first and runs its effects, and the effect       *)
(* cleanups of the instance it replaces, in a later task; a timer that is  *)
(* due may run its callback in between.  The effects of an update are run  *)
(* before the handler of the next event, and a state update made by an     *)
(* effect is rendered the same way; a timer that is due may run its        *)
(* callback before that render.                                            *)
(***************************************************************************)
MaxRequests == 3
MaxResizes == 1
MaxRuns == 3
Quantum == 25
GenerateDelay == 50
FixTilingDelay == 100
ShowPreviewDelay == 50
MaxGalleryItems == 5
SignificantResize == 100
fullscreenPreview == TRUE

TileSizes == {128, 256}

\* The time a synchronous generation keeps the main thread.
GenerationTimes == {0, 100}

\* The values the compared properties of the settings can take.
Contents == {1, 2}

\* How a run of generatePattern ends: it publishes its image; canvasRef holds
\* no canvas; canvas.getContext('2d') returns null; createPattern, generate
\* or verifySeamless throws; canvas.toDataURL throws.
GenerationOutcomes ==
  {"published", "noCanvas", "noContext", "throws", "toDataURLThrows"}

\* window.innerWidth and window.innerHeight before and after a resize.
WindowSizes == { << 1000, 800 >>, << 1050, 800 >>, << 1000, 950 >> }

InitialWindow == << 1000, 800 >>

\* What localStorage holds under camo-gen-gallery when the page loads:
\* nothing, or the list an earlier session saved.
SavedGalleries == { << >>, << -1, -2 >> }

InitialSettings == [request |-> 1, content |-> 1, seed |-> 1]

haveSettingsChanged(prev, current) == prev.content # current.content

\* The key the host gives the component.
CanvasKey(settings, windowDimensions) ==
  << settings.seed, windowDimensions[1], windowDimensions[2] >>

\* Timers are kept in the order in which they fall due; of two timers due at
\* the same time the one set first runs first.
setTimeout(timers, kind, url, delay) ==
  LET ahead == {i \in 1..Len(timers) : timers[i].remaining <= delay}
      n == Cardinality(ahead)
  IN SubSeq(timers, 1, n)
       \o << [kind |-> kind, url |-> url, remaining |-> delay] >>
       \o SubSeq(timers, n + 1, Len(timers))

clearTimeoutSkipped(timers, kind) == timers

clearTimeout(timers, kind) == SelectSeq(timers, LAMBDA t : t.kind # kind)

Elapse(timers, ms) ==
  [i \in 1..Len(timers) |->
     [timers[i] EXCEPT !.remaining = Max(0, timers[i].remaining - ms)]]

\* handleAddToGallery keeping the first items where it keeps the last.
handleAddToGalleryKeepFirst(prevItems, dataUrl) ==
  IF \E i \in 1..Len(prevItems) : prevItems[i] = dataUrl
  THEN prevItems
  ELSE LET newGallery == Append(prevItems, dataUrl)
       IN IF Len(newGallery) > MaxGalleryItems
          THEN SubSeq(newGallery, 1, MaxGalleryItems)
          ELSE newGallery

handleAddToGallery(prevItems, dataUrl) ==
  IF \E i \in 1..Len(prevItems) : prevItems[i] = dataUrl
  THEN prevItems
  ELSE LET newGallery == Append(prevItems, dataUrl)
       IN IF Len(newGallery) > MaxGalleryItems
          THEN SubSeq(newGallery, Len(newGallery) - MaxGalleryItems + 1,
                      Len(newGallery))
          ELSE newGallery

\* useState / useRef initial values of a new component instance.
InitialState ==
  [isGenerating |-> FALSE, showSeamlessPreview |-> fullscreenPreview,
   isSeamless |-> TRUE, patternDataUrl |-> 0]

\* The request whose settings the image or data URL was generated from.
RequestOf(c, url) == IF url <= 0 THEN 0 ELSE c.runs[url]

\* The effect "Generate pattern when settings change", run with the values
\* of the render in c.rendered.  c.outcome is how the last run of
\* generatePattern in this instance ended.
generationEffect(c, elapsed, seamless, outcome) ==
  LET settings == c.rendered.settings
      forceRegenerate == c.prevSettings.seed # settings.seed
      skipped == /\ ~c.initialRender
                 /\ ~haveSettingsChanged(c.prevSettings, settings)
                 /\ ~forceRegenerate
      started == [c EXCEPT !.initialRender = FALSE, !.outcome = outcome]
      dataUrl == Len(c.runs) + 1
      waiting == Elapse(c.timers, elapsed)
      painted == [started EXCEPT !.runs = Append(c.runs, settings.request),
                                 !.canvas = dataUrl,
                                 !.state.isGenerating = FALSE,
                                 !.timers = waiting]
  IN IF skipped THEN c
     ELSE IF outcome = "noCanvas" THEN started
     ELSE IF outcome = "noContext"
     THEN [started EXCEPT !.state.isGenerating = TRUE]
     ELSE IF outcome = "throws" THEN painted
     ELSE IF outcome = "toDataURLThrows"
     THEN [painted EXCEPT !.state.isSeamless = seamless]
     ELSE [painted EXCEPT
             !.state.isSeamless = seamless,
             !.state.patternDataUrl = dataUrl,
             !.gallery = handleAddToGallery(c.gallery, dataUrl),
             !.prevSettings = settings,
             !.timers = IF c.rendered.state.showSeamlessPreview
                        THEN setTimeout(waiting, "generate", dataUrl,
                                        GenerateDelay)
                        ELSE waiting]

\* The cleanup of the effect "Fix tiling issues".
fixTilingCleanup(c) == [c EXCEPT !.timers = clearTimeout(c.timers, "fix")]

\* The effect "Fix tiling issues".
fixTilingEffect(c) ==
  LET patternDataUrl == c.rendered.state.patternDataUrl
  IN IF patternDataUrl # 0 /\ c.rendered.state.showSeamlessPreview
     THEN [c EXCEPT !.timers =
             setTimeout(c.timers, "fix", patternDataUrl, FixTilingDelay)]
     ELSE c

\* The effect "Also ensure correct display when showSeamlessPreview changes".
showPreviewEffect(c) ==
  IF c.rendered.state.showSeamlessPreview
  THEN [c EXCEPT !.timers =
          setTimeout(c.timers, "show", c.rendered.state.patternDataUrl,
                     ShowPreviewDelay)]
  ELSE [c EXCEPT !.background = [image |-> c.background.image,
                                 visible |-> FALSE]]

\* The host's effect "Load gallery from localStorage on first load": it runs
\* once, after the effects of the first PatternCanvas instance, so its
\* setGalleryItems is applied after the update queued by onAddToGallery.
loadGalleryEffect(c) ==
  IF ~c.loaded /\ c.saved # << >>
  THEN [c EXCEPT !.loaded = TRUE, !.gallery = c.saved]
  ELSE [c EXCEPT !.loaded = TRUE]

\* What a timer's callback does to the element with id pattern-background.
TimerCallback(background, timer) ==
  IF timer.kind = "show" /\ timer.url = 0
  THEN background
  ELSE [image |-> timer.url, visible |-> TRUE]

CanvasInputs(c) ==
  [settings |-> c.props.settings, tileSize |-> c.props.tileSize,
   state |-> c.state]

\* The host's key differs from the key of the mounted instance.
KeyChanged(c) == CanvasKey(c.props.settings, c.windowDimensions) # c.key

\* React has a render of the component, or the effects of one, to do.
RenderPending(c) ==
  c.pc # "mounted" \/ KeyChanged(c) \/ CanvasInputs(c) # c.rendered

\* The handler of an event can run.
HandlerCanRun(c) == c.pc = "mounted" /\ ~RenderPending(c)

\* setSettings of handleRegenerate: the settings get a new _seed.
Regenerated(c) ==
  LET request == c.requests + 1
      settings == [request |-> request,
                   content |-> c.props.settings.content,
                   seed |-> request]
  IN [c EXCEPT !.requests = request, !.props.settings = settings]

CanvasInit ==
  /\ \E saved \in SavedGalleries :
       cv = [pc |-> "unmounted",
             requests |-> 1,
             resizes |-> 0,
             runs |-> << >>,
             saved |-> saved,
             loaded |-> FALSE,
             windowDimensions |-> InitialWindow,
             props |-> [settings |-> InitialSettings, tileSize |-> 128],
             key |-> << 0, 0, 0 >>,
             state |-> InitialState,
             rendered |-> [settings |-> InitialSettings, tileSize |-> 128,
                           state |-> InitialState],
             prevSettings |-> InitialSettings,
             initialRender |-> TRUE,
             outcome |-> "none",
             canvas |-> 0,
             background |-> [image |-> 0, visible |-> TRUE],
             timers |-> << >>,
             gallery |-> << >>]
  /\ CanvasOthersIdle

\* handleSettingsChange: a control changes one of the compared properties.
SettingsChange ==
  /\ HandlerCanRun(cv)
  /\ cv.requests < MaxRequests
  /\ \E content \in Contents \ {cv.props.settings.content} :
       LET request == cv.requests + 1
           settings == [request |-> request, content |-> content,
                        seed |-> cv.props.settings.seed]
       IN cv' = [cv EXCEPT !.requests = request, !.props.settings = settings]
  /\ CanvasOthersUnchanged

\* handleRegenerate.
Regenerate ==
  /\ HandlerCanRun(cv)
  /\ cv.requests < MaxRequests
  /\ cv' = Regenerated(cv)
  /\ CanvasOthersUnchanged

\* handleTileSizeChange; the effect it triggers generates again after a
\* generation that failed.
TileSizeChange ==
  /\ HandlerCanRun(cv)
  /\ Len(cv.runs) < MaxRuns
  /\ \E newSize \in TileSizes \ {cv.props.tileSize} :
       cv' = [cv EXCEPT !.props.tileSize = newSize]
  /\ CanvasOthersUnchanged

\* handleResize: the window size is stored on every resize, and a resize by
\* more than 100 pixels in either direction also calls handleRegenerate.
Resize ==
  /\ HandlerCanRun(cv)
  /\ cv.resizes < MaxResizes
  /\ \E inner \in WindowSizes \ {cv.windowDimensions} :
       LET significant ==
             \/ Abs(cv.windowDimensions[1] - inner[1]) > SignificantResize
             \/ Abs(cv.windowDimensions[2] - inner[2]) > SignificantResize
           resized == [cv EXCEPT !.resizes = cv.resizes + 1,
                                 !.windowDimensions = inner]
       IN /\ significant => cv.requests < MaxRequests
          /\ cv' = IF significant THEN Regenerated(resized) ELSE resized
  /\ CanvasOthersUnchanged

\* React commits a new instance: the first one, or the one that replaces
\* the instance whose key has changed.  The new instance starts from the
\* initial values, with a new canvas and a new pattern-background element;
\* the timers of the instance it replaces are still set.
CommitCanvas ==
  /\ cv.pc = "unmounted" \/ (cv.pc = "mounted" /\ KeyChanged(cv))
  /\ cv' = [cv EXCEPT
              !.pc = "committed",
              !.key = CanvasKey(cv.props.settings, cv.windowDimensions),
              !.state = InitialState,
              !.rendered = [settings |-> cv.props.settings,
                            tileSize |-> cv.props.tileSize,
                            state |-> InitialState],
              !.prevSettings = cv.props.settings,
              !.initialRender = TRUE,
              !.outcome = "none",
              !.canvas = 0,
              !.background = [image |-> 0, visible |-> TRUE]]
  /\ CanvasOthersUnchanged

\* The effects of the commit of a new instance: the effect cleanups of the
\* instance it replaced, every effect of the new instance in source order
\* and, in the pass of the first mount, the host's gallery load.
MountCanvas ==
  /\ cv.pc = "committed"
  /\ \E elapsed \in GenerationTimes, seamless \in BOOLEAN,
        outcome \in GenerationOutcomes :
       LET unmounted == fixTilingCleanup(cv)
           fresh == [unmounted EXCEPT !.pc = "mounted"]
       IN cv' = loadGalleryEffect(showPreviewEffect(fixTilingEffect(
                  generationEffect(fresh, elapsed, seamless, outcome))))
  /\ CanvasOthersUnchanged

\* The mounted instance is rendered again: the cleanups of the effects whose
\* dependencies changed run first, then those effects in source order.
RenderCanvas ==
  /\ cv.pc = "mounted"
  /\ ~KeyChanged(cv)
  /\ CanvasInputs(cv) # cv.rendered
  /\ \E elapsed \in GenerationTimes, seamless \in BOOLEAN,
        outcome \in GenerationOutcomes :
       LET old == cv.rendered
           new == CanvasInputs(cv)
           settingsChanged == old.settings # new.settings
           urlChanged ==
             old.state.patternDataUrl # new.state.patternDataUrl
           showChanged ==
             old.state.showSeamlessPreview # new.state.showSeamlessPreview
           sizeChanged == old.tileSize # new.tileSize
           generationDeps == settingsChanged \/ showChanged \/ sizeChanged
           fixTilingDeps == urlChanged \/ showChanged \/ sizeChanged
           showPreviewDeps == showChanged \/ urlChanged
           c0 == [cv EXCEPT !.rendered = new]
           c1 == IF fixTilingDeps THEN fixTilingCleanup(c0) ELSE c0
           c2 == IF generationDeps
                 THEN generationEffect(c1, elapsed, seamless, outcome)
                 ELSE c1
           c3 == IF fixTilingDeps THEN fixTilingEffect(c2) ELSE c2
           c4 == IF showPreviewDeps THEN showPreviewEffect(c3) ELSE c3
       IN cv' = c4
  /\ CanvasOthersUnchanged

\* Time passes while no timer is due; a timer that is due runs before
\* later ones.
Tick ==
  /\ HandlerCanRun(cv)
  /\ cv.timers # << >>
  /\ cv.timers[1].remaining > 0
  /\ cv' = [cv EXCEPT !.timers = Elapse(cv.timers, Quantum)]
  /\ CanvasOthersUnchanged

\* The timer that is due runs its callback, on the pattern-background
\* element that is in the document at that time.
FireTimer ==
  /\ cv.pc \in {"mounted", "committed"}
  /\ cv.timers # << >>
  /\ cv.timers[1].remaining = 0
  /\ cv' = [cv EXCEPT
              !.background = TimerCallback(cv.background, cv.timers[1]),
              !.timers = Tail(cv.timers)]
  /\ CanvasOthersUnchanged

CanvasNext ==
  \/ SettingsChange
  \/ Regenerate
  \/ TileSizeChange
  \/ Resize
  \/ CommitCanvas
  \/ MountCanvas
  \/ RenderCanvas
  \/ Tick
  \/ FireTimer

(***************************************************************************)
(* Post-processing on a whole canvas (PatternCanvas.applyPostProcessing).  *)
(* A canvas is [width, height, data, filter]: data maps the pixel index    *)
(* y * width + x to its <<r, g, b, a>> and filter is ctx.filter.  The      *)
(* canvases examined are small and opaque, as generate() leaves them: its  *)
(* first statement fills the whole canvas with colors[0].  The blur(1px)   *)
(* filter is the Gaussian of standard deviation 1 px, sampled at distances  *)
(* 0..3; where it reaches beyond the source the blurred image is           *)
(* transparent and drawImage lets the canvas show through.                 *)
(***************************************************************************)
SmallWidth == 2
SmallHeight == 2

Grey(v) == <<v, v, v, 255>>

\* Canvases as a generation can leave them: one colour, a right column or a
\* bottom row of another colour, and a checkerboard.
Painted(width, height, P(_, _)) ==
  [width |-> width, height |-> height, filter |-> "none",
   data |-> [i \in 0..((width * height) - 1) |-> P(i % width, i \div width)]]

GeneratedRasters(width, height) ==
  { Painted(width, height, LAMBDA x, y : Grey(100)),
    Painted(width, height,
            LAMBDA x, y : IF x = width - 1 THEN Grey(110) ELSE Grey(100)),
    Painted(width, height,
            LAMBDA x, y : IF x = width - 1 THEN Grey(217) ELSE Grey(100)),
    Painted(width, height,
            LAMBDA x, y : IF y = height - 1 THEN Grey(33) ELSE Grey(100)),
    Painted(width, height,
            LAMBDA x, y : IF (x + y) % 2 = 0 THEN Grey(217) ELSE Grey(33)) }

\* The contrast loop over imageData.data: R, G and B of every pixel.
ContrastStage(data, contrast) ==
  [i \in DOMAIN data |->
     << ContrastValue(data[i][1], contrast),
        ContrastValue(data[i][2], contrast),
        ContrastValue(data[i][3], contrast),
        data[i][4] >>]

RECURSIVE SumSeq(_)
SumSeq(values) ==
  IF values = << >> THEN 0 ELSE Head(values) + SumSeq(Tail(values))

\* filter: blur(1px) is a Gaussian blur of standard deviation 1 px: the
\* weight exp(-d * d / 2) / sqrt(2 * pi) of a pixel at distance d = 0..3 along
\* an axis, in ten-thousandths; beyond 3 px the weight is below 0.00014.
BlurKernel == << 3989, 2420, 540, 44 >>

\* The weight of the source pixel at offset (dx, dy), in millionths.
BlurWeight(dx, dy) ==
  IF Abs(dx) > 3 \/ Abs(dy) > 3 THEN 0
  ELSE RoundDiv(BlurKernel[Abs(dx) + 1] * BlurKernel[Abs(dy) + 1], 100)

\* ctx.filter = 'blur(1px)'; ctx.drawImage(tempCanvas, 0, 0): the source is
\* transparent outside its rectangle, and its blurred image is composited
\* (source-over) on the data the canvas holds.
drawImageBlurred(canvas, source) ==
  LET width == canvas.width
      height == canvas.height
      Channel(i, j) ==
        LET taps == Listed([k \in 1..(width * height) |->
                       LET weight == BlurWeight(((k - 1) % width) - (i % width),
                                                ((k - 1) \div width) - (i \div width))
                       IN  [weight |-> weight, value |-> source[k - 1][j]]])
            covered == SumSeq([k \in 1..(width * height) |-> taps[k].weight])
            blurred == SumSeq([k \in 1..(width * height) |->
                                 taps[k].weight * taps[k].value])
        IN  (blurred + ((1000000 - covered) * canvas.data[i][j]) + 500000)
            \div 1000000
  IN  [i \in DOMAIN canvas.data |->
         << Channel(i, 1), Channel(i, 2), Channel(i, 3), canvas.data[i][4] >>]

\* The unsharp mask: data = original + (original - blurred) * amount with
\* amount = (sharpness - 50) / 50 * 0.8, stored into the Uint8ClampedArray.
UnsharpMask(data, blurredPixels, sharpness) ==
  LET amount == (sharpness - 50) * 16
      Masked(original, blurred) ==
        ToUint8Clamped((original * 1000000)
                       + ((original - blurred) * amount * 1000))
  IN  [i \in DOMAIN data |->
         << Masked(data[i][1], blurredPixels[i][1]),
            Masked(data[i][2], blurredPixels[i][2]),
            Masked(data[i][3], blurredPixels[i][3]),
            data[i][4] >>]

\* if (sharpness > 50)
SharpenEngagedEarly(sharpness) == sharpness > 25

SharpenEngaged(sharpness) == sharpness > 50

\* The calls of applyPostProcessing that can fail: the first getImageData,
\* tempCanvas.getContext('2d') and the getImageData of the blurred canvas.
PostFaults == {"none", "getImageData", "tempCtx", "blurredData"}

\* applyPostProcessing(canvas, ctx, contrast, sharpness) when the call named
\* by fault fails: the canvas it leaves and whether a tempCanvas was made.
PostProcess(canvas, contrast, sharpness, fault) ==
  IF fault = "getImageData"
  THEN [canvas |-> canvas, tempCanvas |-> FALSE]
  ELSE
    LET data == ContrastStage(canvas.data, contrast)
    IN  IF SharpenEngaged(sharpness)
        THEN IF fault = "tempCtx"
             THEN [canvas |-> canvas, tempCanvas |-> TRUE]
             ELSE LET drawn == [canvas EXCEPT
                                  !.data = drawImageBlurred(canvas, data),
                                  !.filter = "blur(1px)"]
                  IN  IF fault = "blurredData"
                      THEN [canvas |-> drawn, tempCanvas |-> TRUE]
                      ELSE [canvas |->
                              [canvas EXCEPT
                                 !.data = UnsharpMask(data, drawn.data, sharpness),
                                 !.filter = "none"],
                            tempCanvas |-> TRUE]
        ELSE [canvas |-> [canvas EXCEPT !.data = data], tempCanvas |-> FALSE]

\* The calls examined: the contrast store for every channel value and every
\* contrast, and applyPostProcessing on the small canvases.
ContrastCalls ==
  [name : {"contrast"}, value : 0..255, contrast : 0..100]

PostContrastInputs == {0, 50, 60, 100}
PostSharpnessInputs == {0, 40, 50, 51, 75, 100}

PostCalls ==
  [name : {"applyPostProcessing"},
   canvas : GeneratedRasters(SmallWidth, SmallHeight),
   contrast : PostContrastInputs, sharpness : PostSharpnessInputs,
   fault : PostFaults]

PostInit ==
  /\ \E c \in ContrastCalls \cup PostCalls :
       fn = [pc |-> "called", args |-> c, result |-> << >>]
  /\ FnOthersIdle

CallContrast ==
  /\ fn.pc = "called"
  /\ fn.args.name = "contrast"
  /\ fn' = [fn EXCEPT !.pc = "returned",
                      !.result = ContrastValue(fn.args.value, fn.args.contrast)]
  /\ FnOthersUnchanged

CallPostProcessing ==
  /\ fn.pc = "called"
  /\ fn.args.name = "applyPostProcessing"
  /\ fn' = [fn EXCEPT !.pc = "returned",
                      !.result = PostProcess(fn.args.canvas, fn.args.contrast,
                                             fn.args.sharpness, fn.args.fault)]
  /\ FnOthersUnchanged

PostNext ==
  \/ CallContrast
  \/ CallPostProcessing

(***************************************************************************)
(* generatePattern of PatternCanvas: one position per call of its body.    *)
(* gen.canvas is the component's canvas, gen.generated the raster as       *)
(* pattern.generate() left it, gen.steps the calls the running generation  *)
(* has returned from, and gen.error the call that threw or returned early. *)
(***************************************************************************)
MaxGenerations == 2

GenContrastInputs == {50, 60}
GenSharpnessInputs == {50, 75}

GenSettings == [contrast : GenContrastInputs, sharpness : GenSharpnessInputs]

\* The rasters pattern.generate() paints in the generations examined.
GenRasters(width, height) ==
  { Painted(width, height, LAMBDA x, y : Grey(100)),
    Painted(width, height,
            LAMBDA x, y : IF x = width - 1 THEN Grey(110) ELSE Grey(100)),
    Painted(width, height,
            LAMBDA x, y : IF y = height - 1 THEN Grey(33) ELSE Grey(100)) }

\* canvas.toDataURL('image/png'): the PNG encoding of the canvas pixels.
toDataURL(canvas) ==
  [mime |-> "image/png", width |-> canvas.width, height |-> canvas.height,
   pixels |-> canvas.data]

\* The 4x4 PNG of fallbackPattern: opaque black on the anti-diagonal.
fallbackPattern ==
  toDataURL(Painted(4, 4, LAMBDA x, y : IF x + y = 3 THEN <<0, 0, 0, 255>>
                                                      ELSE <<0, 0, 0, 0>>))

\* ctx.clearRect(0, 0, canvas.width, canvas.height)
clearRect(canvas) ==
  [canvas EXCEPT !.data = [i \in DOMAIN canvas.data |-> <<0, 0, 0, 0>>]]

\* The four getImageData reads of verifySeamless.
Edges(canvas) ==
  [side \in Sides |->
     [t \in 0..(SideLength(side, canvas.width, canvas.height) - 1) |->
        LET p == PixelAt(side, t, canvas.width, canvas.height)
        IN  canvas.data[(p[2] * canvas.width) + p[1]]]]

\* The raster verifySeamless(canvas) is called on.
VerifiedRasterBeforePost(g) == g.generated

VerifiedRaster(g) == g.canvas

FullSteps ==
  << "createPattern", "generate", "applyPostProcessing", "verifySeamless",
     "publish" >>

\* The canvas after the initial-pattern effect has drawn on it: the base
\* colour #5e7240 everywhere, or arcs in #4c5e3d over part of it.
InitialRasters(width, height) ==
  { Painted(width, height, LAMBDA x, y : <<94, 114, 64, 255>>),
    Painted(width, height,
            LAMBDA x, y : IF x = width - 1 THEN <<76, 94, 61, 255>>
                                           ELSE <<94, 114, 64, 255>>) }

\* The component has rendered for the first time and no effect has run:
\* prevSettingsRef holds the settings of the mount, patternDataUrl the
\* fallback.
GenInit ==
  /\ \E settings \in GenSettings :
       gen = [pc |-> "mounted", generations |-> 0,
              settings |-> settings, prevSettings |-> settings,
              isGenerating |-> FALSE, isSeamless |-> TRUE,
              patternDataUrl |-> fallbackPattern, gallery |-> << >>,
              canvas |-> clearRect(Painted(SmallWidth, SmallHeight,
                                           LAMBDA x, y : Grey(0))),
              generated |-> clearRect(Painted(SmallWidth, SmallHeight,
                                              LAMBDA x, y : Grey(0))),
              steps |-> << >>, postFault |-> "none", error |-> "none"]
  /\ GenOthersIdle

\* The effect "Force initial pattern generation" on mount, where
\* patternDataUrl is the fallback: without a context it does nothing; with
\* one it fills the canvas and draws the arcs, then sets patternDataUrl to
\* canvas.toDataURL('image/png') unless that call throws.
GenInitialPattern ==
  /\ gen.pc = "mounted"
  /\ \/ gen' = [gen EXCEPT !.pc = "ready"]
     \/ \E painted \in InitialRasters(SmallWidth, SmallHeight),
           encoded \in BOOLEAN :
          LET canvas == [painted EXCEPT !.filter = gen.canvas.filter]
          IN  gen' = [gen EXCEPT
                        !.canvas = canvas,
                        !.patternDataUrl = IF encoded THEN toDataURL(canvas)
                                           ELSE gen.patternDataUrl,
                        !.pc = "ready"]
  /\ GenOthersUnchanged

\* The generation effect calls generatePattern, on mount with the settings of
\* the mount and later with the settings of a change:
\* setIsGenerating(true); const ctx = canvas.getContext('2d');
\* if (!ctx) return;
StartGeneration ==
  /\ gen.pc = "ready"
  /\ gen.generations < MaxGenerations
  /\ \E settings \in (IF gen.generations = 0 THEN {gen.settings} ELSE GenSettings),
        hasContext \in BOOLEAN :
       gen' = [gen EXCEPT !.generations = gen.generations + 1,
                          !.settings = settings,
                          !.isGenerating = TRUE,
                          !.steps = << >>,
                          !.postFault = "none",
                          !.error = IF hasContext THEN "none" ELSE "getContext",
                          !.pc = IF hasContext THEN "createPattern" ELSE "ready"]
  /\ GenOthersUnchanged

\* ctx.clearRect(...); PatternFactory.createPattern(...)
CreatePattern ==
  /\ gen.pc = "createPattern"
  /\ gen' = [gen EXCEPT !.canvas = clearRect(gen.canvas),
                        !.steps = Append(gen.steps, "createPattern"),
                        !.pc = "generate"]
  /\ GenOthersUnchanged

\* pattern.generate() returns: it has painted the pixels and left ctx.filter
\* as it found it.
GenerateReturns ==
  /\ gen.pc = "generate"
  /\ \E painted \in GenRasters(SmallWidth, SmallHeight) :
       LET canvas == [painted EXCEPT !.filter = gen.canvas.filter]
       IN  gen' = [gen EXCEPT !.canvas = canvas,
                              !.generated = canvas,
                              !.steps = Append(gen.steps, "generate"),
                              !.pc = "applyPostProcessing"]
  /\ GenOthersUnchanged

\* pattern.generate() throws; the catch block logs the error.
GenerateThrows ==
  /\ gen.pc = "generate"
  /\ \E painted \in {gen.canvas, Painted(SmallWidth, SmallHeight,
                                           LAMBDA x, y : Grey(100))} :
       gen' = [gen EXCEPT !.canvas = [painted EXCEPT !.filter = gen.canvas.filter],
                          !.error = "generate",
                          !.pc = "finally"]
  /\ GenOthersUnchanged

\* applyPostProcessing(canvas, ctx, settings.contrast, settings.sharpness);
\* it catches what its calls throw.
GenPostProcessing ==
  /\ gen.pc = "applyPostProcessing"
  /\ \E fault \in PostFaults :
       /\ fault \in {"none", "getImageData"}
            \/ SharpenEngaged(gen.settings.sharpness)
       /\ gen' = [gen EXCEPT
                    !.canvas = PostProcess(gen.canvas, gen.settings.contrast,
                                           gen.settings.sharpness, fault).canvas,
                    !.postFault = fault,
                    !.steps = Append(gen.steps, "applyPostProcessing"),
                    !.pc = "verifySeamless"]
  /\ GenOthersUnchanged

\* setIsSeamless(verifySeamless(canvas))
GenVerifySeamless ==
  /\ gen.pc = "verifySeamless"
  /\ gen' = [gen EXCEPT
               !.isSeamless =
                  LET verified == VerifiedRaster(gen)
                  IN  verifySeamless(Edges(verified), verified.width,
                                     verified.height),
               !.steps = Append(gen.steps, "verifySeamless"),
               !.pc = "publish"]
  /\ GenOthersUnchanged

\* setPatternDataUrl(canvas.toDataURL('image/png')); onAddToGallery(dataUrl);
\* prevSettingsRef.current = {...settings}
Publish ==
  /\ gen.pc = "publish"
  /\ LET dataUrl == toDataURL(gen.canvas)
     IN  gen' = [gen EXCEPT
                   !.patternDataUrl = dataUrl,
                   !.gallery = handleAddToGallery(gen.gallery, dataUrl),
                   !.prevSettings = gen.settings,
                   !.steps = Append(gen.steps, "publish"),
                   !.pc = "finally"]
  /\ GenOthersUnchanged

\* canvas.toDataURL('image/png') throws; the catch block logs the error.
PublishThrows ==
  /\ gen.pc = "publish"
  /\ gen' = [gen EXCEPT !.error = "toDataURL", !.pc = "finally"]
  /\ GenOthersUnchanged

\* finally { setIsGenerating(false) }
Finally ==
  /\ gen.pc = "finally"
  /\ gen' = [gen EXCEPT !.isGenerating = FALSE, !.pc = "ready"]
  /\ GenOthersUnchanged

GenNext ==
  \/ GenInitialPattern
  \/ StartGeneration
  \/ CreatePattern
  \/ GenerateReturns
  \/ GenerateThrows
  \/ GenPostProcessing
  \/ GenVerifySeamless
  \/ Publish
  \/ PublishThrows
  \/ Finally

(***************************************************************************)
(* verifySeamless, statement by statement: one step per pixel of the two   *)
(* comparison loops.  The canvases examined are grey 100 with a run of     *)
(* changed pixels in the right column (rows 1..lr) and in the bottom row   *)
(* (columns 1..tb).                                                        *)
(***************************************************************************)
MaxRun == 4

SeamSizes ==
  { [width |-> 25, height |-> 25], [width |-> 40, height |-> 10],
    [width |-> 10, height |-> 40], [width |-> 60, height |-> 40],
    [width |-> 70, height |-> 30] }

SeamCanvases ==
  [size : SeamSizes, lr : 0..MaxRun, tb : 0..MaxRun, delta : {10, 11},
   channels : {1, 3}, alpha : BOOLEAN]

\* The pixel of a canvas at (x, y).
SeamPixel(c, x, y) ==
  LET changed == \/ x = c.size.width - 1 /\ y >= 1 /\ y <= c.lr
                 \/ y = c.size.height - 1 /\ x >= 1 /\ x <= c.tb
      edge == x = c.size.width - 1 \/ y = c.size.height - 1
      other == IF changed THEN 100 + c.delta ELSE 100
  IN  << other,
         IF c.channels = 3 THEN other ELSE 100,
         IF c.channels = 3 THEN other ELSE 100,
         IF c.alpha /\ edge THEN 200 ELSE 255 >>

\* leftEdge, rightEdge, topEdge and bottomEdge as getImageData returns them.
SeamEdges(c) ==
  [side \in Sides |->
     [t \in 0..(SideLength(side, c.size.width, c.size.height) - 1) |->
        LET p == PixelAt(side, t, c.size.width, c.size.height)
        IN  SeamPixel(c, p[1], p[2])]]

\* Math.floor((width + height) * 0.02)
maxMismatchTolerance(width, height) == ((width + height) * 2) \div 100

\* for (let j = 0; j < 3; j++) { ... } on one pixel of the two edges, from
\* channel j on.
RECURSIVE CompareChannels(_, _, _, _, _)
CompareChannels(a, b, j, mismatchCount, tolerance) ==
  IF j > 3
  THEN [mismatchCount |-> mismatchCount, match |-> TRUE]
  ELSE IF Abs(a[j] - b[j]) > 10
       THEN IF mismatchCount + 1 > tolerance
            THEN [mismatchCount |-> mismatchCount + 1, match |-> FALSE]
            ELSE CompareChannels(a, b, j + 1, mismatchCount + 1, tolerance)
       ELSE CompareChannels(a, b, j + 1, mismatchCount, tolerance)

\* mismatchCount = 0 between the two loops.
ResetCountSkipped(mismatchCount) == mismatchCount

ResetCount(mismatchCount) == 0

SeamInit ==
  /\ \E c \in SeamCanvases :
       fn = [pc |-> "leftRight", args |-> c, i |-> 0, mismatchCount |-> 0,
             leftRightMatch |-> TRUE, topBottomMatch |-> TRUE,
             result |-> TRUE]
  /\ FnOthersIdle

\* One pass of the outer loop "Check left-right edges".
LeftRightStep ==
  /\ fn.pc = "leftRight"
  /\ fn.i < fn.args.size.height
  /\ LET edges == SeamEdges(fn.args)
         after == CompareChannels(edges["left"][fn.i], edges["right"][fn.i], 1,
                                  fn.mismatchCount,
                                  maxMismatchTolerance(fn.args.size.width,
                                                       fn.args.size.height))
     IN  fn' = [fn EXCEPT !.mismatchCount = after.mismatchCount,
                          !.leftRightMatch = after.match,
                          !.i = IF after.match THEN fn.i + 1 ELSE fn.i,
                          !.pc = IF after.match THEN "leftRight" ELSE "reset"]
  /\ FnOthersUnchanged

\* The left-right loop ends; mismatchCount = 0.
ResetMismatchCount ==
  /\ \/ fn.pc = "reset"
     \/ fn.pc = "leftRight" /\ fn.i >= fn.args.size.height
  /\ fn' = [fn EXCEPT !.mismatchCount = ResetCount(fn.mismatchCount),
                      !.i = 0,
                      !.pc = "topBottom"]
  /\ FnOthersUnchanged

\* One pass of the outer loop "Check top-bottom edges".
TopBottomStep ==
  /\ fn.pc = "topBottom"
  /\ fn.i < fn.args.size.width
  /\ LET edges == SeamEdges(fn.args)
         after == CompareChannels(edges["top"][fn.i], edges["bottom"][fn.i], 1,
                                  fn.mismatchCount,
                                  maxMismatchTolerance(fn.args.size.width,
                                                       fn.args.size.height))
     IN  fn' = [fn EXCEPT !.mismatchCount = after.mismatchCount,
                          !.topBottomMatch = after.match,
                          !.i = IF after.match THEN fn.i + 1 ELSE fn.i,
                          !.pc = IF after.match THEN "topBottom" ELSE "return"]
  /\ FnOthersUnchanged

\* return leftRightMatch && topBottomMatch
SeamReturn ==
  /\ \/ fn.pc = "return"
     \/ fn.pc = "topBottom" /\ fn.i >= fn.args.size.width
  /\ fn' = [fn EXCEPT !.result = fn.leftRightMatch /\ fn.topBottomMatch,
                      !.pc = "returned"]
  /\ FnOthersUnchanged

SeamNext ==
  \/ LeftRightStep
  \/ ResetMismatchCount
  \/ TopBottomStep
  \/ SeamReturn

(***************************************************************************)
(* The shared PerlinNoise field: seed() and noise2D() called in any order. *)
(* fn.perlin is the field, fn.value the seed of the last seed() call and   *)
(* fn.before / fn.previous the field and the seed before that call.  Seeds *)
(* are in units of 1 / SeedUnit, coordinates in twentieths.                *)
(***************************************************************************)
MaxSeedings == 3

NoiseSeeds ==
  { 0, 16384, 40000, 1 * SeedUnit, 2 * SeedUnit, 257 * SeedUnit,
    16384 * SeedUnit, (-1) * SeedUnit }

NoisePoints == { <<0, 0>>, <<7, 13>>, <<25, 310>>, <<5119, 5119>> }

NoiseInit ==
  /\ fn = [pc |-> "constructed", perlin |-> PerlinInit, before |-> PerlinInit,
           value |-> 0, previous |-> 0, seedings |-> 0,
           at |-> <<0, 0>>, result |-> 0]
  /\ FnOthersIdle

\* perlin.seed(value)
Seed ==
  /\ fn.seedings < MaxSeedings
  /\ \E value \in NoiseSeeds :
       fn' = [fn EXCEPT !.pc = "seeded",
                        !.before = fn.perlin,
                        !.previous = fn.value,
                        !.perlin = seed(fn.perlin, value),
                        !.value = value,
                        !.seedings = fn.seedings + 1]
  /\ FnOthersUnchanged

\* perlin.noise2D(x, y)
Noise2D ==
  /\ \E p \in NoisePoints :
       fn' = [fn EXCEPT !.pc = "sampled",
                        !.at = p,
                        !.result = noise2D(fn.perlin.perm, p[1], p[2])]
  /\ FnOthersUnchanged

NoiseNext ==
  \/ Seed
  \/ Noise2D

(***************************************************************************)
(* DigitalPattern.generate up to the noise-texture pass: the base fill and *)
(* the noise map, the quantization, enhanceShapes and the layer-by-layer   *)
(* painting of the blocks.  Noise values are in thousandths; fn.pixels     *)
(* holds the colour of every pixel of the canvas, row by row.  The grid    *)
(* has Math.ceil(width / blockSize) columns and as many rows as the height *)
(* needs, so its last column and row may reach beyond the canvas, and      *)
(* drawTiledRect brings the part beyond it back onto the first pixels.     *)
(***************************************************************************)
\* Math.max(3, Math.min(10, Math.round((scale / 100) * 8))), the offset
\* left out.
digitalBlockSizeNoOffset(scale) ==
  Max(3, Min(10, RoundDiv(scale * 8, 100)))

\* const blockSize =
\*   Math.max(3, Math.min(10, Math.round((scale / 100) * 8) + 2))
digitalBlockSize(scale) ==
  Max(3, Min(10, RoundDiv(scale * 8, 100) + 2))

\* canvas.width and canvas.height
DigitalCanvases == { <<6, 6>>, <<7, 6>>, <<8, 7>>, <<9, 9>> }

DigitalScales == {10, 30}

DigitalComplexities == {30, 100}

DigitalPalettes ==
  { << "#445C2B" >>,
    << "#445C2B", "#79573E" >>,
    DigitalDefaults.colors }

\* Math.ceil(a / b) for positive integers
CeilDiv(a, b) == (a + b - 1) \div b

\* Values perlin.noise2D returns, from -1 to 1.
NoiseValues == << -1000, -500, 0, 500, 1000 >>

\* The noise maps examined: the values taken in turn from a starting value
\* with a stride, cell after cell, and one value in a field of another.
NoiseMaps(rows, cols) ==
  { [y \in 0..(rows - 1) |-> [x \in 0..(cols - 1) |->
       NoiseValues[((start + (stride * ((y * cols) + x))) % 5) + 1]]] :
      start \in 0..4, stride \in 0..4 }
  \cup
  { [y \in 0..(rows - 1) |-> [x \in 0..(cols - 1) |->
       NoiseValues[IF x = 0 /\ y = 0 THEN odd ELSE field]]] :
      odd \in 1..5, field \in 1..5 }

\* Math.floor(normalizedNoise * (colorLayers + 1)) with
\* normalizedNoise = (noise + 1) / 2, left as it is.
QuantizeUnclamped(noise, colorLayers) ==
  ((noise + 1000) * (colorLayers + 1)) \div 2000

\* quantizedMap[y][x] = Math.min(colorLayers, layer)
Quantize(noise, colorLayers) ==
  Min(colorLayers, ((noise + 1000) * (colorLayers + 1)) \div 2000)

\* this.drawTiledRect(x, y, width, height) on a canvas of the given size
\* paints the pixel (px, py): one of the nine fillRect calls, at the
\* offsets {-W, 0, W} x {-H, 0, H}, covers it.
TiledRectCovers(canvasWidth, canvasHeight, x, y, width, height, px, py) ==
  \E offsetX \in {0 - canvasWidth, 0, canvasWidth},
     offsetY \in {0 - canvasHeight, 0, canvasHeight} :
    /\ x + offsetX <= px
    /\ px < x + offsetX + width
    /\ y + offsetY <= py
    /\ py < y + offsetY + height

\* The loop `for (let layer = 1; layer <= colorLayers; layer++)`, from layer
\* on: fillStyle = colors[layer], then drawTiledRect(x * blockSize,
\* y * blockSize, blockSize, blockSize) for every cell that holds layer - 1.
RECURSIVE PaintLayers(_, _, _, _, _, _)
PaintLayers(pixels, colors, enhancedMap, layer, fillStyle, blockSize) ==
  IF layer > Len(colors) - 1 THEN pixels
  ELSE LET style == SetFillStyle(fillStyle, ColorAt(colors, layer))
           height == Cardinality(DOMAIN pixels)
           width == Cardinality(DOMAIN pixels[0])
           painted ==
             [py \in DOMAIN pixels |->
                [px \in DOMAIN pixels[py] |->
                   IF \E y \in DOMAIN enhancedMap :
                        \E x \in DOMAIN enhancedMap[y] :
                          /\ enhancedMap[y][x] = layer - 1
                          /\ TiledRectCovers(width, height, x * blockSize,
                                             y * blockSize, blockSize,
                                             blockSize, px, py)
                   THEN style
                   ELSE pixels[py][px]]]
       IN  PaintLayers(painted, colors, enhancedMap, layer + 1, style,
                       blockSize)

DigitalInit ==
  /\ \E size \in DigitalCanvases, scale \in DigitalScales,
        c \in DigitalComplexities, colors \in DigitalPalettes :
       LET blockSize == digitalBlockSize(scale)
           cols == CeilDiv(size[1], blockSize)
           rows == CeilDiv(size[2], blockSize)
           empty == [y \in 0..(rows - 1) |-> [x \in 0..(cols - 1) |-> 0]]
       IN  fn = [pc |-> "constructed", width |-> size[1], height |-> size[2],
                 blockSize |-> blockSize, rows |-> rows, cols |-> cols,
                 complexity |-> c, colors |-> colors, iteration |-> 0,
                 noiseMap |-> empty, quantizedMap |-> empty,
                 enhancedMap |-> empty,
                 pixels |-> [y \in 0..(size[2] - 1) |->
                               [x \in 0..(size[1] - 1) |-> "transparent"]]]
  /\ FnOthersIdle

\* ctx.fillStyle = colors[0]; ctx.fillRect(0, 0, width, height); the noise
\* map is filled from perlin.noise2D.
FillAndSampleNoise ==
  /\ fn.pc = "constructed"
  /\ \E noiseMap \in NoiseMaps(fn.rows, fn.cols) :
       fn' = [fn EXCEPT
                !.pc = "noise",
                !.noiseMap = noiseMap,
                !.pixels = [y \in 0..(fn.height - 1) |->
                              [x \in 0..(fn.width - 1) |->
                                 ColorAt(fn.colors, 0)]]]
  /\ FnOthersUnchanged

\* The quantization loops.
QuantizeNoise ==
  /\ fn.pc = "noise"
  /\ fn' = [fn EXCEPT
              !.pc = "quantized",
              !.quantizedMap =
                 [y \in 0..(fn.rows - 1) |->
                    [x \in 0..(fn.cols - 1) |->
                       Quantize(fn.noiseMap[y][x], Len(fn.colors) - 1)]]]
  /\ FnOthersUnchanged

\* this.enhanceShapes(quantizedMap, rows, cols, complexity) is entered:
\* result is a copy of the map.
EnhanceShapes ==
  /\ fn.pc = "quantized"
  /\ fn' = [fn EXCEPT !.pc = "enhancing",
                      !.iteration = 0,
                      !.enhancedMap = fn.quantizedMap]
  /\ FnOthersUnchanged

\* One pass of the iteration loop of enhanceShapes: the cells are read from
\* map, the array passed in, and written to result; at the end of the pass
\* every row of result is copied back into map.
EnhanceSweep ==
  /\ fn.pc = "enhancing"
  /\ fn.iteration < Iterations(fn.complexity)
  /\ LET result == Sweep(fn.quantizedMap, fn.rows, fn.cols)
     IN  fn' = [fn EXCEPT !.iteration = fn.iteration + 1,
                          !.enhancedMap = result,
                          !.quantizedMap = result]
  /\ FnOthersUnchanged

\* enhanceShapes returns result.
EnhanceShapesReturn ==
  /\ fn.pc = "enhancing"
  /\ fn.iteration >= Iterations(fn.complexity)
  /\ fn' = [fn EXCEPT !.pc = "enhanced"]
  /\ FnOthersUnchanged

\* "Draw the digital pattern using the enhanced map".
PaintBlocks ==
  /\ fn.pc = "enhanced"
  /\ fn' = [fn EXCEPT
              !.pc = "painted",
              !.pixels = PaintLayers(fn.pixels, fn.colors, fn.enhancedMap, 1,
                                     ColorAt(fn.colors, 0), fn.blockSize)]
  /\ FnOthersUnchanged

DigitalNext ==
  \/ FillAndSampleNoise
  \/ QuantizeNoise
  \/ EnhanceShapes
  \/ EnhanceSweep
  \/ EnhanceShapesReturn
  \/ PaintBlocks

(***************************************************************************)
(* The gallery of the page (page.tsx): handleAddToGallery, the effect that  *)
(* loads the gallery from localStorage on the first load and the effect    *)
(* that saves it.  Data URLs are numbered in the order in which they first *)
(* appear.  localStorage holds what an earlier session of the page saved:  *)
(* nothing, or at most 5 different URLs.  fn.loaded is the list the load   *)
(* effect put into the gallery (empty when nothing was saved), fn.inserted *)
(* lists the URLs of the calls that changed the gallery since; fn.before,  *)
(* fn.url and fn.returned are the gallery before the last call, its        *)
(* argument and what its updater returned.                                 *)
(***************************************************************************)
MaxAdds == 7

MaxUrls == 6

RECURSIVE SeqMax(_)
SeqMax(s) == IF s = << >> THEN 0 ELSE Max(Head(s), SeqMax(Tail(s)))

\* galleryItems.slice(-n)
SliceLast(items, n) ==
  IF Len(items) > n THEN SubSeq(items, Len(items) - n + 1, Len(items))
  ELSE items

\* localStorage.getItem('camo-gen-gallery') when the page loads: null, or the
\* list saved by the save effect of an earlier session, which is
\* galleryItems.slice(-5) or galleryItems.slice(-1).  It was written by
\* JSON.stringify, so JSON.parse in the load effect does not throw.
SavedLists == { << >>, << 1 >>, << 1, 2, 3 >>, << 1, 2, 3, 4, 5 >> }

\* The page has rendered with useState<string[]>([]) and no effect has run.
GalleryInit ==
  /\ \E saved \in SavedLists :
       fn = [pc |-> "rendered", galleryItems |-> << >>, loaded |-> << >>,
             inserted |-> << >>, before |-> << >>, url |-> 0,
             returned |-> << >>, calls |-> 0, changed |-> FALSE,
             storage |-> saved]
  /\ FnOthersIdle

\* The effects of the first commit.  The generation effect of PatternCanvas
\* runs first and, when its generation publishes, calls
\* onAddToGallery(dataUrl); the load effect of the page runs after it and,
\* when localStorage holds a list, calls setGalleryItems(JSON.parse(...)).
\* React applies the two updates in that order, so a loaded list replaces
\* what the call returned.
LoadGallery ==
  /\ fn.pc = "rendered"
  /\ \E published \in BOOLEAN, dataUrl \in 1..MaxUrls :
       LET returned == IF published
                       THEN handleAddToGallery(fn.galleryItems, dataUrl)
                       ELSE fn.galleryItems
           savedGallery == fn.storage
           items == IF savedGallery # << >> THEN savedGallery ELSE returned
       IN  /\ dataUrl <= SeqMax(savedGallery) + 1
           /\ ~published => dataUrl = 1
           /\ fn' = [fn EXCEPT
                       !.pc = "mounted",
                       !.galleryItems = items,
                       !.loaded = savedGallery,
                       !.inserted = IF savedGallery = << >> THEN returned
                                    ELSE << >>,
                       !.before = fn.galleryItems,
                       !.url = IF published THEN dataUrl ELSE 0,
                       !.returned = returned,
                       !.calls = IF published THEN 1 ELSE 0,
                       !.changed = (items # fn.galleryItems)]
  /\ FnOthersUnchanged

\* onAddToGallery(dataUrl): setGalleryItems(prevItems => ...)
AddToGallery ==
  /\ fn.pc = "mounted"
  /\ fn.calls < MaxAdds
  /\ ~fn.changed
  /\ \E dataUrl \in 1..Min(MaxUrls, SeqMax(fn.loaded \o fn.inserted) + 1) :
       LET items == handleAddToGallery(fn.galleryItems, dataUrl)
       IN  fn' = [fn EXCEPT
                    !.galleryItems = items,
                    !.before = fn.galleryItems,
                    !.url = dataUrl,
                    !.returned = items,
                    !.calls = fn.calls + 1,
                    !.changed = (items # fn.galleryItems),
                    !.inserted = IF items # fn.galleryItems
                                 THEN Append(fn.inserted, dataUrl)
                                 ELSE fn.inserted]
  /\ FnOthersUnchanged

\* The effect on [galleryItems]: the last 5 items are written to
\* localStorage, the last one alone when that write fails, nothing when
\* that fails too.
SaveGallery ==
  /\ fn.pc = "mounted"
  /\ fn.changed
  /\ \E failures \in 0..2 :
       fn' = [fn EXCEPT
                !.changed = FALSE,
                !.storage =
                   IF Len(fn.galleryItems) = 0 \/ failures = 2 THEN fn.storage
                   ELSE IF failures = 1 THEN SliceLast(fn.galleryItems, 1)
                   ELSE SliceLast(fn.galleryItems, 5)]
  /\ FnOthersUnchanged

GalleryNext ==
  \/ LoadGallery
  \/ AddToGallery
  \/ SaveGallery

(***************************************************************************)
(* Sizes computed by the pattern classes: the vertex radius of the         *)
(* Woodland, Desert and Flecktarn shapes and the block size of the Digital *)
(* pattern.  The sizes of the parameters are in thousandths of a pixel,    *)
(* irregularity and elongation in thousandths, angles in whole degrees,    *)
(* Math.random() values in hundredths.  The radius of a vertex is computed *)
(* in doubles from these; of the result, noise is in units of 1 / 20000,   *)
(* factor (bias + noise * irregularity) in units of 1 / 20 000 000 and     *)
(* radiusVariation in hundredths of a pixel, each the nearest whole number *)
(* of units.                                                               *)
(***************************************************************************)
\* The parameters of the layers: minSize, maxSize, irregularity and
\* elongation as generate() passes them (scaleFactor = scale / 50 for
\* Woodland and Desert, scale / 40 for Flecktarn).
WoodlandParams(layer, scale, complexity) ==
  CASE layer = 1 -> [minSize |-> 1200 * scale, maxSize |-> 4000 * scale,
                     irregularity |-> 400 + (4 * complexity), elongation |-> 400]
    [] layer = 2 -> [minSize |-> 800 * scale, maxSize |-> 2800 * scale,
                     irregularity |-> 500 + (3 * complexity), elongation |-> 400]
    [] layer = 3 -> [minSize |-> 600 * scale, maxSize |-> 2000 * scale,
                     irregularity |-> 600 + (3 * complexity), elongation |-> 400]
    [] layer = 4 -> [minSize |-> 300 * scale, maxSize |-> 1200 * scale,
                     irregularity |-> 700 + (3 * complexity), elongation |-> 600]

FlecktarnParams(layer, scale, complexity) ==
  CASE layer = 1 -> [minSize |-> 125 * scale, maxSize |-> 300 * scale,
                     irregularity |-> 400 + (4 * complexity), elongation |-> 0]
    [] layer = 2 -> [minSize |-> 100 * scale, maxSize |-> 250 * scale,
                     irregularity |-> 500 + (3 * complexity), elongation |-> 0]
    [] layer = 3 -> [minSize |-> 75 * scale, maxSize |-> 225 * scale,
                     irregularity |-> 500 + (3 * complexity), elongation |-> 0]
    [] layer = 4 -> [minSize |-> 50 * scale, maxSize |-> 175 * scale,
                     irregularity |-> 600 + (3 * complexity), elongation |-> 0]

DesertParams(scale) ==
  [minSize |-> 1000 * scale, maxSize |-> 3000 * scale,
   irregularity |-> 200, elongation |-> 0]

\* const size = minSize + Math.random() * (maxSize - minSize)
ShapeSize(params, random) ==
  params.minSize + ((random * (params.maxSize - params.minSize)) \div 100)

\* Math.cos and Math.sin of an angle of whole degrees, as doubles.
CosDouble(angle) ==
  DoubleMul(DoubleMul(DoubleOfInt(MathCos(angle * 100)), DoubleOfRatio(1, 10000)),
            DoubleOfRatio(1, 10000))

SinDouble(angle) ==
  DoubleMul(DoubleMul(DoubleOfInt(MathSin(angle * 100)), DoubleOfRatio(1, 10000)),
            DoubleOfRatio(1, 10000))

\* const seed = Math.cos(angle) * 0.5 + Math.sin(angle) * 0.5
AngleSeed(angle) ==
  DoubleAdd(DoubleMul(CosDouble(angle), DoubleOfRatio(5, 10)),
            DoubleMul(SinDouble(angle), DoubleOfRatio(5, 10)))

\* perlin.noise2D(seed, seed * 2)
SeedNoise(perm, angleSeed) ==
  noise2DDouble(perm, angleSeed, DoubleMul(angleSeed, DoubleOfInt(2)))

ShapeNoise(perm, angle) == SeedNoise(perm, AngleSeed(angle))

\* perlin.noise2D(Math.cos(angle) * 0.5, Math.sin(angle) * 0.5)
DesertNoise(perm, angle) ==
  noise2DDouble(perm, DoubleMul(CosDouble(angle), DoubleOfRatio(5, 10)),
                DoubleMul(SinDouble(angle), DoubleOfRatio(5, 10)))

\* bias + noise * irregularity, bias and irregularity in thousandths
RadiusFactor(bias, noise, irregularity) ==
  DoubleAdd(DoubleOfRatio(bias, 1000),
            DoubleMul(noise, DoubleOfRatio(irregularity, 1000)))

\* 1 + elongation * Math.cos(angle * 2), elongation in thousandths
stretchFactor(elongation, angle) ==
  DoubleAdd(DoubleOfInt(1),
            DoubleMul(DoubleOfRatio(elongation, 1000), CosDouble(angle * 2)))

\* radius * stretchFactor * (bias + noise * irregularity), radius in
\* thousandths of a pixel; the value is a double, in pixels.
RadiusVariation(radius, stretch, factor) ==
  DoubleMul(DoubleMul(DoubleOfRatio(radius, 1000), stretch), factor)

\* The radius of one vertex and the values it was computed from: noise in
\* units of 1 / 20000, factor in units of 1 / 20 000 000, radiusVariation in
\* hundredths of a pixel.
VertexValues(params, radius, noise, stretch, factor) ==
  [minSize |-> params.minSize, maxSize |-> params.maxSize,
   radius |-> radius, noise |-> DoubleScaled(noise, 20000),
   factor |-> DoubleScaled(factor, 20000000),
   radiusVariation |->
     DoubleScaled(RadiusVariation(radius, stretch, factor), 100)]

VertexFactor(params, radius, noise, stretch, bias) ==
  VertexValues(params, radius, noise, stretch,
               RadiusFactor(bias, noise, params.irregularity))

\* The radius of one vertex as the three families compute it: Woodland with
\* the stretch factor, Flecktarn and Desert without it.
VertexRadius(family, layer, scale, complexity, random, perm, angle) ==
  LET params == CASE family = "woodland" ->
                       WoodlandParams(layer, scale, complexity)
                  [] family = "flecktarn" ->
                       FlecktarnParams(layer, scale, complexity)
                  [] family = "desert" -> DesertParams(scale)
      bias == CASE family = "woodland" -> 700
                [] family = "flecktarn" -> 600
                [] family = "desert" -> 900
  IN  VertexFactor(params, ShapeSize(params, random),
                   IF family = "desert" THEN DesertNoise(perm, angle)
                   ELSE ShapeNoise(perm, angle),
                   IF family = "woodland"
                   THEN stretchFactor(params.elongation, angle)
                   ELSE DoubleOfInt(1),
                   bias)

SizeScales == {10, 50, 100}
SizeComplexities == {1, 50, 100}
SizeAngles == {0, 45, 110, 200, 290}
SizeSeeds == {0, 10275 * SeedUnit, 23345 * SeedUnit}

RadiusCalls ==
  [name : {"radius"}, family : {"woodland", "flecktarn"}, layer : 1..4,
   scale : SizeScales, complexity : SizeComplexities, random : RandomValues,
   seed : SizeSeeds, angle : SizeAngles]
  \cup
  [name : {"radius"}, family : {"desert"}, layer : {1},
   scale : SizeScales, complexity : SizeComplexities, random : RandomValues,
   seed : SizeSeeds, angle : SizeAngles]

BlockSizeCalls == [name : {"blockSize"}, scale : 1..100]

SizeInit ==
  /\ \E c \in RadiusCalls \cup BlockSizeCalls :
       fn = [pc |-> "called", args |-> c, result |-> << >>]
  /\ FnOthersIdle

\* One vertex of drawWoodlandShape.
WoodlandRadius ==
  /\ fn.pc = "called"
  /\ fn.args.name = "radius"
  /\ fn.args.family = "woodland"
  /\ fn' = [fn EXCEPT
              !.pc = "returned",
              !.result = VertexRadius("woodland", fn.args.layer, fn.args.scale,
                                      fn.args.complexity, fn.args.random,
                                      SeedPerm(fn.args.seed), fn.args.angle)]
  /\ FnOthersUnchanged

\* One vertex of drawFlecktarnSpot.
FlecktarnRadius ==
  /\ fn.pc = "called"
  /\ fn.args.name = "radius"
  /\ fn.args.family = "flecktarn"
  /\ fn' = [fn EXCEPT
              !.pc = "returned",
              !.result = VertexRadius("flecktarn", fn.args.layer, fn.args.scale,
                                      fn.args.complexity, fn.args.random,
                                      SeedPerm(fn.args.seed), fn.args.angle)]
  /\ FnOthersUnchanged

\* One vertex of drawDesertShape.
DesertRadius ==
  /\ fn.pc = "called"
  /\ fn.args.name = "radius"
  /\ fn.args.family = "desert"
  /\ fn' = [fn EXCEPT
              !.pc = "returned",
              !.result = VertexRadius("desert", 1, fn.args.scale,
                                      fn.args.complexity, fn.args.random,
                                      SeedPerm(fn.args.seed), fn.args.angle)]
  /\ FnOthersUnchanged

\* The block size of DigitalPattern.generate.
DigitalBlockSize ==
  /\ fn.pc = "called"
  /\ fn.args.name = "blockSize"
  /\ fn' = [fn EXCEPT !.pc = "returned",
                      !.result = digitalBlockSize(fn.args.scale)]
  /\ FnOthersUnchanged

SizeNext ==
  \/ WoodlandRadius
  \/ FlecktarnRadius
  \/ DesertRadius
  \/ DigitalBlockSize

(***************************************************************************)
(* FlecktarnPattern.generateFlecktarnSpots: 2 * count candidate positions  *)
(* are proposed, those whose noise value passes the threshold are kept,    *)
(* and when more than count were kept they are shuffled and cut to count.  *)
(* A position is its proposal number with the noise value found at it (in  *)
(* thousandths); the irregularity is in thousandths.                       *)
(***************************************************************************)
MaxCount == 2
FleckCounts == 1..MaxCount
FleckLayers == 1..4
FleckComplexities == {1, 25, 100}

\* Values of perlin.noise2D, in thousandths.
FleckNoiseValues == {-500, -50, 0, 500}

\* irregularity: 0.4 + (complexity / 100) * 0.4 for the first layer,
\* 0.5 + (complexity / 100) * 0.3 for the second and third and
\* 0.6 + (complexity / 100) * 0.3 for the fourth, as a double.
FleckIrregularity(layer, complexity) ==
  LET base == CASE layer = 1 -> 4 [] layer = 4 -> 6 [] OTHER -> 5
      slope == IF layer = 1 THEN 4 ELSE 3
  IN  DoubleAdd(DoubleOfRatio(base, 10),
                DoubleMul(DoubleOfRatio(complexity, 100),
                          DoubleOfRatio(slope, 10)))

\* if (noiseVal > -0.2 + irregularity * 0.3), noiseVal in thousandths and
\* irregularity a double.  At irregularity 0.5 the right-hand side is the
\* double -0.05000000000000002, and the noise value -0.05 lies above it.
PassesThreshold(noiseVal, irregularity) ==
  DoubleLess(DoubleAdd(DoubleNeg(DoubleOfRatio(2, 10)),
                       DoubleMul(irregularity, DoubleOfRatio(3, 10))),
             DoubleOfRatio(noiseVal, 1000))

\* positions[i] = positions[j], the other half of the exchange left out.
SwapCopy(items, i, j) == [items EXCEPT ![i] = items[j]]

\* [positions[i], positions[j]] = [positions[j], positions[i]]
\* (indices from 1).
Swap(items, i, j) == [items EXCEPT ![i] = items[j], ![j] = items[i]]

\* positions.length = count
SetLength(items, n) == SubSeq(items, 1, n)

FleckInit ==
  /\ \E count \in FleckCounts, layer \in FleckLayers,
        complexity \in FleckComplexities :
       fn = [pc |-> "proposing",
             layer |-> layer, complexity |-> complexity,
             params |-> [count |-> count,
                         irregularity |->
                           FleckIrregularity(layer, complexity)],
             i |-> 0, proposed |-> << >>, positions |-> << >>,
             drawn |-> << >>]
  /\ FnOthersIdle

\* One pass of the first loop: a candidate position, kept when its noise
\* value passes the threshold.
ProposePosition ==
  /\ fn.pc = "proposing"
  /\ fn.i < fn.params.count * 2
  /\ \E noiseVal \in FleckNoiseValues :
       LET position == [id |-> fn.i + 1, noiseVal |-> noiseVal]
       IN  fn' = [fn EXCEPT
                    !.i = fn.i + 1,
                    !.proposed = Append(fn.proposed, position),
                    !.positions =
                       IF PassesThreshold(noiseVal, fn.params.irregularity)
                       THEN Append(fn.positions, position)
                       ELSE fn.positions]
  /\ FnOthersUnchanged

\* The first loop ends; the shuffle starts at the last position when more
\* positions than needed were kept.
EndProposing ==
  /\ fn.pc = "proposing"
  /\ fn.i >= fn.params.count * 2
  /\ fn' = [fn EXCEPT
              !.pc = IF Len(fn.positions) > fn.params.count
                     THEN "shuffling" ELSE "drawing",
              !.i = Len(fn.positions) - 1]
  /\ FnOthersUnchanged

\* One pass of the Fisher-Yates loop, j = Math.floor(Math.random() * (i + 1)).
ShuffleStep ==
  /\ fn.pc = "shuffling"
  /\ fn.i > 0
  /\ \E j \in 0..fn.i :
       fn' = [fn EXCEPT !.i = fn.i - 1,
                        !.positions = Swap(fn.positions, fn.i + 1, j + 1)]
  /\ FnOthersUnchanged

\* positions.length = count, after the shuffle.
Truncate ==
  /\ fn.pc = "shuffling"
  /\ fn.i <= 0
  /\ fn' = [fn EXCEPT !.pc = "drawing",
                      !.positions = SetLength(fn.positions, fn.params.count)]
  /\ FnOthersUnchanged

\* The last loop: every remaining position is drawn.
DrawSpots ==
  /\ fn.pc = "drawing"
  /\ fn' = [fn EXCEPT !.pc = "done", !.drawn = fn.positions]
  /\ FnOthersUnchanged

FleckNext ==
  \/ ProposePosition
  \/ EndProposing
  \/ ShuffleStep
  \/ Truncate
  \/ DrawSpots

(***************************************************************************)
(* TigerStripePattern.generateTigerStripes: the scan of the raster for the *)
(* edge points of the base-colour patches and the stripes drawn at them.   *)
(* data holds one <<r, g, b>> per pixel, pixel (x, y) at y * width + x; a  *)
(* read outside the array gives "undefined".  Math.random() is in          *)
(* hundredths and the values of perlin.noise2D are in thousandths; the     *)
(* stripe density is a double.  fn.canvas is the pattern canvas, which the *)
(* stripes are painted on, and fn.data the copy of it that the scan reads. *)
(* The calls of Math.random() and of perlin.noise2D in the drawing loop    *)
(* return the values of fn.randoms and fn.noises in turn.  Lengths of the  *)
(* stripe geometry are in millionths of a pixel, directions in units of    *)
(* 10^-8 and path points in hundredths of a pixel; a stripe covers the     *)
(* pixels whose centre lies in its path.                                   *)
(***************************************************************************)
sampleStep == 4

\* BasePattern.hexToRgb on the colours of the Tiger Stripe palette.
hexToRgb(hex) ==
  CASE hex = "#8C7E5C" -> [r |-> 140, g |-> 126, b |-> 92]
    [] hex = "#505B35" -> [r |-> 80, g |-> 91, b |-> 53]
    [] hex = "#000000" -> [r |-> 0, g |-> 0, b |-> 0]

\* a % b of JavaScript, b > 0: the sign of a.
JsRem(a, b) == IF a >= 0 THEN a % b ELSE 0 - ((0 - a) % b)

\* data[idx], data[idx + 1], data[idx + 2] for idx = p * 4.
DataAt(data, p) == IF p \in DOMAIN data THEN data[p] ELSE "undefined"

\* Math.abs(data[idx] - baseRgb.r) < 15 && ... ; with an undefined operand
\* the difference is NaN and the comparison false.
isBaseColor(pixel, baseRgb) ==
  /\ pixel # "undefined"
  /\ Abs(pixel[1] - baseRgb.r) < 15
  /\ Abs(pixel[2] - baseRgb.g) < 15
  /\ Abs(pixel[3] - baseRgb.b) < 15

\* x + nx, the wrap left out.
NeighborCoordinateUnwrapped(v, d, size) == v + d

\* const nx2 = (x + nx + width) % width
NeighborCoordinate(v, d, size) == JsRem(v + d + size, size)

\* The loops over ny and nx: some neighbour other than the pixel itself is
\* not of the base colour.
isEdge(data, x, y, width, height, baseRgb) ==
  \E ny \in {0 - sampleStep, 0, sampleStep}, nx \in {0 - sampleStep, 0, sampleStep} :
    /\ ~(nx = 0 /\ ny = 0)
    /\ ~isBaseColor(DataAt(data, (NeighborCoordinate(y, ny, height) * width)
                                   + NeighborCoordinate(x, nx, width)),
                    baseRgb)

\* stripeDensity: 0.4 + (complexity / 100) * 0.5, as a double; at
\* complexity 40 it is 0.6000000000000001.
stripeDensity(complexity) ==
  DoubleAdd(DoubleOfRatio(4, 10),
            DoubleMul(DoubleOfRatio(complexity, 100), DoubleOfRatio(5, 10)))

\* Math.random() < stripeDensity && noiseVal > -0.3
PassesDensity(random, density, noiseVal) ==
  /\ DoubleLess(DoubleOfRatio(random, 100), density)
  /\ DoubleLess(DoubleNeg(DoubleOfRatio(3, 10)), DoubleOfRatio(noiseVal, 1000))

\* The angle (Math.random() - 0.5) * 0.4 radians in units of 10^-4
\* hundredths of a degree: 0.4 / 100 * 18000 / pi = 22.9183 per hundredth.
angleVariation(random) == (random - 50) * 229183

\* Math.cos and Math.sin of the angle v that angleVariation returns.
VariationCos(v) == MathCosPart(v \div 10000, v % 10000, 10000)

VariationSin(v) == MathSinPart(v \div 10000, v % 10000, 10000)

\* drawTigerStripe(x, y, length, width, dirX, dirY, irregularity): the path
\* of the stripe.  random is the value Math.random() returns for pointCount
\* and noises[first], noises[first + 1], ... are the values of
\* perlin.noise2D, in the order of the calls; irregularity is in
\* thousandths.
drawTigerStripe(x, y, length, width, dirX, dirY, irregularity, random, noises, first) ==
  LET perpX == 0 - dirY
      perpY == dirX
      pointCount == 6 + ((random * 4) \div 100)
      t(i) == RoundDiv(length * ((2 * i) - pointCount), 2 * pointCount)
      baseX(i) == (x * 1000000) + MulUnit(t(i), dirX)
      baseY(i) == (y * 1000000) + MulUnit(t(i), dirY)
      half == width \div 2
      actualWidth(call) ==
        half + MulUnit(half, irregularity * Random(noises, call) * 100)
      near(i) ==
        << RoundDiv(baseX(i) + MulUnit(actualWidth(first + i), perpX), 10000),
           RoundDiv(baseY(i) + MulUnit(actualWidth(first + i), perpY), 10000) >>
      far(i) ==
        LET call == first + pointCount + 1 + (pointCount - i)
        IN  << RoundDiv(baseX(i) - MulUnit(actualWidth(call), perpX), 10000),
               RoundDiv(baseY(i) - MulUnit(actualWidth(call), perpY), 10000) >>
  IN  Listed([k \in 1..(2 * (pointCount + 1)) |->
                IF k <= pointCount + 1 THEN near(k - 1)
                ELSE far((2 * pointCount) + 1 - (k - 1))])

\* The loops over offsetX and offsetY of drawTigerStripe with ctx.fill():
\* the canvas after the nine copies of the path are filled with color.
FillTiledPath(canvas, width, height, path, color) ==
  LET offsets == TileOffsets(width, height)
      copies == Listed([k \in 1..9 |->
                  Listed([i \in 1..Len(path) |->
                            << path[i][1] + offsets[k][1],
                               path[i][2] + offsets[k][2] >>])])
      boxes == Listed([k \in 1..9 |-> PathBox(copies[k])])
  IN  [p \in DOMAIN canvas |->
         IF \E k \in 1..9 :
              InPath(copies[k], boxes[k],
                     PixelCentre(<< p % width, p \div width >>))
         THEN color
         ELSE canvas[p]]

\* The loop `for (const { x, y } of edgePoints)` from the k-th point on:
\* three calls of Math.random() for the length, the width and the angle of
\* the stripe, and drawTigerStripe with a fourth.  call is the number of
\* the next call of perlin.noise2D.
RECURSIVE PaintStripes(_, _, _, _, _)
PaintStripes(canvas, f, edgePoints, k, call) ==
  IF k > Len(edgePoints) THEN canvas
  ELSE LET random(j) == Random(f.randoms, (4 * (k - 1)) + j)
           stripeLength == f.scale * 800 * (300 + (3 * random(1)))
           actualWidth == f.scale * 640 * (200 + random(2))
           variation == angleVariation(random(3))
           dirX == MathCos(f.orientation * 100)
           dirY == MathSin(f.orientation * 100)
           actualDirX == MulUnit(dirX, VariationCos(variation))
                         - MulUnit(dirY, VariationSin(variation))
           actualDirY == MulUnit(dirX, VariationSin(variation))
                         + MulUnit(dirY, VariationCos(variation))
           pointCount == 6 + ((random(4) * 4) \div 100)
           path == drawTigerStripe(edgePoints[k][1], edgePoints[k][2],
                                   stripeLength, actualWidth, actualDirX,
                                   actualDirY, f.irregularity, random(4),
                                   f.noises, call)
       IN  PaintStripes(FillTiledPath(canvas, f.width, f.height, path,
                                      f.color),
                        f, edgePoints, k + 1, call + (2 * (pointCount + 1)))

TigerSizes == {<<8, 8>>, <<10, 8>>, <<12, 8>>}
TigerScales == {10, 50}
TigerComplexities == {1, 40, 100}

\* What Math.random() and perlin.noise2D return in the drawing loop.
TigerRandomStreams == { << 0, 60, 20, 80 >>, << 80, 20, 60 >> }
TigerNoiseStreams == { << -400, 500, 0 >> }
TigerPixels == {<<80, 91, 53>>, <<94, 91, 53>>, <<95, 91, 53>>, <<80, 91, 68>>}
TigerSpots == {0, 4, 6, 8}
TigerNoiseValues == {-400, 0}

\* Rasters of one colour, and rasters of one colour but for one pixel.
TigerRasters(width, height) ==
  {[p \in 0..((width * height) - 1) |-> c] : c \in TigerPixels}
  \cup
  {[p \in 0..((width * height) - 1) |->
      IF p = (sy * width) + sx THEN c ELSE bg] :
     sx \in {v \in TigerSpots : v < width},
     sy \in {v \in TigerSpots : v < height},
     c \in TigerPixels, bg \in {<<80, 91, 53>>, <<95, 91, 53>>}}

TigerInit ==
  /\ \E size \in TigerSizes, scale \in TigerScales,
        complexity \in TigerComplexities,
        randoms \in TigerRandomStreams, noises \in TigerNoiseStreams :
       \E data \in TigerRasters(size[1], size[2]) :
         fn = [pc |-> "called", width |-> size[1], height |-> size[2],
               canvas |-> data, data |-> << >>,
               scale |-> scale, complexity |-> complexity,
               color |-> LET rgb == hexToRgb(TigerDefaults.colors[3])
                         IN  << rgb.r, rgb.g, rgb.b >>,
               baseRgb |-> hexToRgb(TigerDefaults.colors[2]),
               stripeDensity |-> stripeDensity(complexity),
               orientation |-> TigerDefaults.orientation,
               irregularity |-> 400 + (5 * complexity),
               randoms |-> randoms, noises |-> noises,
               x |-> 0, y |-> 0, edgePoints |-> << >>, stripes |-> << >>]
  /\ FnOthersIdle

\* The temporary canvas: without a context the method returns; with one the
\* pattern canvas is copied and read back.
GetImageData ==
  /\ fn.pc = "called"
  /\ \E hasContext \in BOOLEAN :
       fn' = IF hasContext
             THEN [fn EXCEPT !.pc = "scanning", !.data = fn.canvas]
             ELSE [fn EXCEPT !.pc = "returned"]
  /\ FnOthersUnchanged

\* One pass of the inner loop of the scan, at (fn.x, fn.y).
SamplePixel ==
  /\ fn.pc = "scanning"
  /\ \E random \in RandomValues, noiseVal \in TigerNoiseValues :
       LET found ==
             /\ isBaseColor(DataAt(fn.data, (fn.y * fn.width) + fn.x), fn.baseRgb)
             /\ isEdge(fn.data, fn.x, fn.y, fn.width, fn.height, fn.baseRgb)
             /\ PassesDensity(random, fn.stripeDensity, noiseVal)
           rowEnds == fn.x + sampleStep >= fn.width
           scanEnds == rowEnds /\ fn.y + sampleStep >= fn.height
       IN  fn' = [fn EXCEPT
                    !.edgePoints = IF found THEN Append(fn.edgePoints, <<fn.x, fn.y>>)
                                   ELSE fn.edgePoints,
                    !.x = IF rowEnds THEN 0 ELSE fn.x + sampleStep,
                    !.y = IF rowEnds THEN fn.y + sampleStep ELSE fn.y,
                    !.pc = IF scanEnds THEN "drawing" ELSE "scanning"]
  /\ FnOthersUnchanged

\* The last loop: one stripe is painted on the pattern canvas at every edge
\* point.
DrawStripes ==
  /\ fn.pc = "drawing"
  /\ fn' = [fn EXCEPT !.pc = "returned",
                      !.stripes = fn.edgePoints,
                      !.canvas = PaintStripes(fn.canvas, fn, fn.edgePoints,
                                              1, 1)]
  /\ FnOthersUnchanged

TigerNext ==
  \/ GetImageData
  \/ SamplePixel
  \/ DrawStripes

(***************************************************************************)
(* The effects of a mounted PatternCanvas (components/PatternCanvas.tsx):  *)
(* the initial-pattern effect and the generation effect, run in the order  *)
(* of their declaration after a render, and the state updates they queue,  *)
(* applied together before the next render.  generatePattern has no await  *)
(* and runs to its end inside the generation effect.  The canvas is        *)
(* described by what was last drawn on it; a data URL by the canvas        *)
(* content it encodes.  A change of _seed changes the key the page gives   *)
(* the component, which mounts a new instance.                             *)
(***************************************************************************)
MaxChanges == 3

keysToCompare == {"patternType", "scale", "complexity", "contrast", "sharpness"}

\* haveSettingsChanged(prev, current) of components/PatternCanvas.tsx.
HaveSettingsChanged(prev, current) ==
  \/ \E key \in keysToCompare : prev[key] # current[key]
  \/ Len(prev.colors) # Len(current.colors)
  \/ \E i \in 1..Len(prev.colors) : prev.colors[i] # current.colors[i]

\* '_seed' in both settings and the seeds equal, after an unchanged
\* comparison: the effect returns without generating.
SkipsRegeneration(prev, current) ==
  /\ ~HaveSettingsChanged(prev, current)
  /\ "_seed" \in DOMAIN prev
  /\ "_seed" \in DOMAIN current
  /\ prev._seed = current._seed

\* The settings the page starts with, and the values its controls give.
PageSettings(seedValue) ==
  [patternType |-> "woodland", scale |-> 50, complexity |-> 60,
   contrast |-> 60, sharpness |-> 50,
   colors |-> << "#4A7023", "#3B5323", "#78866B", "#A9BA9D", "#000000" >>,
   _seed |-> seedValue]

SettingsUpdates ==
  { [patternType |-> "woodland"], [patternType |-> "digital"],
    [scale |-> 50], [scale |-> 30],
    [colors |-> << "#4A7023", "#3B5323", "#78866B", "#A9BA9D", "#000000" >>],
    [colors |-> << "#4A7023" >>] }

\* setSettings(prev => ({...prev, ...newSettings}))
MergeSettings(prev, newSettings) ==
  [key \in DOMAIN prev |->
     IF key \in DOMAIN newSettings THEN newSettings[key] ELSE prev[key]]

\* canvas.toDataURL('image/png') of a canvas with the given content.
EncodeCanvas(content) == [mime |-> "image/png", content |-> content]

IsGeneratedUrl(dataUrl) ==
  /\ dataUrl # fallbackPattern
  /\ dataUrl.content.kind = "generated"

IsEmergencyUrl(dataUrl) ==
  /\ dataUrl # fallbackPattern
  /\ dataUrl.content.kind = "emergency"

\* The queued setPatternDataUrl calls applied to the state: the first call
\* kept.
ApplyUpdatesFirst(current, updates) ==
  IF updates = << >> THEN current ELSE updates[1]

\* The queued setPatternDataUrl calls applied to the state, in the order of
\* the calls.
ApplyUpdates(current, updates) ==
  IF updates = << >> THEN current ELSE updates[Len(updates)]

\* A new instance with the given settings: the state of its first render.
\* cause is what mounted it: the load of the page, handleRegenerate or
\* handleResize.
MountedInstance(settings, mount, changes, cause) ==
  [pc |-> "initialPatternEffect", mount |-> mount, changes |-> changes,
   cause |-> cause, outcome |-> "none",
   settings |-> settings, prevSettingsRef |-> settings,
   initialRenderRef |-> TRUE, patternDataUrl |-> fallbackPattern,
   updates |-> << >>, generationDue |-> TRUE,
   canvas |-> [kind |-> "blank"], skipped |-> FALSE, commits |-> 0,
   afterMount |-> [updates |-> << >>, published |-> fallbackPattern,
                   outcome |-> "none"]]

EffectsInit ==
  /\ gen = MountedInstance(PageSettings(1), 1, 0, "load")
  /\ GenOthersIdle

\* The initial-pattern effect: while the state holds the fallback pattern, a
\* simple pattern is drawn on the canvas and queued as the data URL.
InitialPatternEffect ==
  /\ gen.pc = "initialPatternEffect"
  /\ \E hasContext \in BOOLEAN, encodes \in BOOLEAN :
       LET draws == gen.patternDataUrl = fallbackPattern /\ hasContext
           drawn == IF draws THEN [kind |-> "emergency", mount |-> gen.mount]
                    ELSE gen.canvas
       IN  gen' = [gen EXCEPT
                     !.canvas = drawn,
                     !.updates = IF draws /\ encodes
                                 THEN Append(gen.updates, EncodeCanvas(drawn))
                                 ELSE gen.updates,
                     !.pc = IF gen.generationDue THEN "generationEffect"
                            ELSE "commit"]
  /\ GenOthersUnchanged

\* The generation effect: the skip decision, then generatePattern to its
\* end.  outcome names the first call that fails, if any.
GenerationEffect ==
  /\ gen.pc = "generationEffect"
  /\ \E outcome \in {"getContext", "generate", "toDataURL", "none"} :
       LET skips == /\ ~gen.initialRenderRef
                    /\ SkipsRegeneration(gen.prevSettingsRef, gen.settings)
           generated == [kind |-> "generated", settings |-> gen.settings,
                         changes |-> gen.changes]
       IN  gen' =
             IF skips
             THEN [gen EXCEPT !.skipped = TRUE, !.generationDue = FALSE,
                              !.pc = "commit"]
             ELSE [gen EXCEPT
                     !.initialRenderRef = FALSE,
                     !.outcome = outcome,
                     !.skipped = FALSE,
                     !.generationDue = FALSE,
                     !.canvas =
                        CASE outcome = "getContext" -> gen.canvas
                          [] outcome = "generate" ->
                               [kind |-> "failed", settings |-> gen.settings]
                          [] OTHER -> generated,
                     !.updates = IF outcome = "none"
                                 THEN Append(gen.updates, EncodeCanvas(generated))
                                 ELSE gen.updates,
                     !.prevSettingsRef = IF outcome = "none" THEN gen.settings
                                         ELSE gen.prevSettingsRef,
                     !.pc = "commit"]
  /\ GenOthersUnchanged

\* The queued updates are applied and the component renders again; the
\* initial-pattern effect is due when patternDataUrl changed.
CommitUpdates ==
  /\ gen.pc = "commit"
  /\ LET published == ApplyUpdates(gen.patternDataUrl, gen.updates)
     IN  gen' = [gen EXCEPT
                   !.patternDataUrl = published,
                   !.updates = << >>,
                   !.commits = IF gen.commits = 0 THEN 1 ELSE gen.commits,
                   !.afterMount =
                      IF gen.commits = 0
                      THEN [updates |-> gen.updates, published |-> published,
                            outcome |-> gen.outcome]
                      ELSE gen.afterMount,
                   !.pc = IF published # gen.patternDataUrl
                          THEN "initialPatternEffect" ELSE "idle"]
  /\ GenOthersUnchanged

\* handleSettingsChange(newSettings): a new settings object with the same
\* _seed reaches the mounted component, and the generation effect is due.
HandleSettingsChange ==
  /\ gen.pc = "idle"
  /\ gen.changes < MaxChanges
  /\ \E newSettings \in SettingsUpdates :
       gen' = [gen EXCEPT !.settings = MergeSettings(gen.settings, newSettings),
                          !.changes = gen.changes + 1,
                          !.skipped = FALSE,
                          !.generationDue = TRUE,
                          !.pc = "generationEffect"]
  /\ GenOthersUnchanged

\* handleRegenerate(): a new _seed, so a new key and a new instance.
HandleRegenerate ==
  /\ gen.pc = "idle"
  /\ gen.changes < MaxChanges
  /\ gen' = MountedInstance([gen.settings EXCEPT !._seed = gen.settings._seed + 1],
                            gen.mount + 1, gen.changes + 1, "regenerate")
  /\ GenOthersUnchanged

\* handleResize(): the new window size is stored, so the key changes and a
\* new instance is mounted; the settings keep their _seed unless the size
\* changed by more than 100 pixels, when handleRegenerate is called too.
HandleResize ==
  /\ gen.pc = "idle"
  /\ gen.changes < MaxChanges
  /\ \E significant \in BOOLEAN :
       LET settings == IF significant
                       THEN [gen.settings EXCEPT !._seed = gen.settings._seed + 1]
                       ELSE gen.settings
       IN  gen' = MountedInstance(settings, gen.mount + 1, gen.changes + 1,
                                  "resize")
  /\ GenOthersUnchanged

EffectsNext ==
  \/ InitialPatternEffect
  \/ GenerationEffect
  \/ CommitUpdates
  \/ HandleSettingsChange
  \/ HandleRegenerate
  \/ HandleResize

(***************************************************************************)
(* Specifications.                                                         *)
(***************************************************************************)

SpecGrid == GridInit /\ [][GridNext]_vars

SpecLib == LibInit /\ [][LibNext]_vars

SpecShape == ShapeInit /\ [][ShapeNext]_vars

SpecRaster == RasterInit /\ [][RasterNext]_vars

SpecCanvas == CanvasInit /\ [][CanvasNext]_vars

SpecPost == PostInit /\ [][PostNext]_vars

SpecGen == GenInit /\ [][GenNext]_vars

SpecSeam == SeamInit /\ [][SeamNext]_vars

SpecNoise == NoiseInit /\ [][NoiseNext]_vars

SpecDigital == DigitalInit /\ [][DigitalNext]_vars

SpecGallery == GalleryInit /\ [][GalleryNext]_vars

SpecSize == SizeInit /\ [][SizeNext]_vars

SpecFleck == FleckInit /\ [][FleckNext]_vars

SpecTiger == TigerInit /\ [][TigerNext]_vars

SpecEffects == EffectsInit /\ [][EffectsNext]_vars

(***************************************************************************)
(* Properties of the GridSmoother.                                         *)
(***************************************************************************)

\* The eight wrapped neighbour positions of (x, y), counted one by one even
\* when several of them fall on the same cell.
WrappedOffsets == ({-1, 0, 1} \X {-1, 0, 1}) \ {<<0, 0>>}

NeighboursHolding(m, x, y, v) ==
  Cardinality({o \in WrappedOffsets :
     m[(y + o[1] + grid.rows) % grid.rows][(x + o[2] + grid.cols) % grid.cols] = v})

HighestNeighbourCount(m, x, y) ==
  LET counts == {NeighboursHolding(m, x, y, v) : v \in 0..MaxLayerId}
  IN  CHOOSE c \in counts : \A d \in counts : d <= c

GridCells == (0..(grid.rows - 1)) \X (0..(grid.cols - 1))

\* C6: in every sweep a cell is replaced by a most frequent value among its 8
\* wrapped neighbours exactly when fewer than 3 of those neighbours equal the
\* cell's value and that most frequent value occurs at least 4 times; in every
\* other case the cell keeps its value.
C6_ReassignmentRule ==
  grid.iteration > 0 =>
    \A c \in GridCells :
      LET y == c[1]
          x == c[2]
          old == grid.prev[y][x]
          new == grid.map[y][x]
          same == NeighboursHolding(grid.prev, x, y, old)
          top == HighestNeighbourCount(grid.prev, x, y)
      IN  IF same < 3 /\ top >= 4
            THEN new # old /\ NeighboursHolding(grid.prev, x, y, new) = top
            ELSE new = old

\* A sweep that replaced one cell and kept another one that had at least 3
\* supporters although a different value occurred more often around it.
C6_Witness ==
  /\ grid.iteration > 0
  /\ \E c \in GridCells :
       /\ grid.map[c[1]][c[2]] # grid.prev[c[1]][c[2]]
       /\ NeighboursHolding(grid.prev, c[2], c[1], grid.prev[c[1]][c[2]]) < 3
  /\ \E c \in GridCells :
       /\ NeighboursHolding(grid.prev, c[2], c[1], grid.prev[c[1]][c[2]]) >= 3
       /\ HighestNeighbourCount(grid.prev, c[2], c[1]) >
            NeighboursHolding(grid.prev, c[2], c[1], grid.prev[c[1]][c[2]])
       /\ grid.map[c[1]][c[2]] = grid.prev[c[1]][c[2]]

Uniform(m) == \A c \in GridCells, d \in GridCells : m[c[1]][c[2]] = m[d[1]][d[2]]

\* C7: run on a grid whose cells all hold the same value, the smoother
\* returns its input unchanged, whatever the grid size (1xN and 2xN grids
\* included) and the complexity.
C7_UniformGridUnchanged ==
  (grid.pc = "done" /\ Uniform(grid.input)) => grid.result = grid.input

\* A uniform 1x3 grid smoothed with the four iterations of complexity 100.
C7_Witness ==
  /\ grid.pc = "done"
  /\ grid.rows = 1 /\ grid.cols = 3
  /\ grid.iteration = 4
  /\ Uniform(grid.input)
  /\ grid.result = grid.input

\* Every cell of the grid after the sweep is the rule applied to the grid
\* before it.
SweptFromStart ==
  grid.iteration > 0 =>
    \A c \in GridCells :
      grid.map[c[1]][c[2]] =
        SmoothCell(grid.prev, c[2], c[1], grid.rows, grid.cols)

\* An iteration reads the whole result of the one before.
StartsFromPreviousResult ==
  (grid'.iteration = grid.iteration + 1) => (grid'.prev = grid.result)

\* C24: within an iteration every cell's new value is computed from the grid
\* as it was when the iteration started, the next iteration starts from the
\* full result of the previous one, and enhanceShapes returns after
\* max(1, floor(complexity / 25)) iterations.
C24_SynchronousIterations ==
  /\ [](/\ SweptFromStart
        /\ grid.map = grid.result
        /\ grid.pc = "done" =>
             grid.iteration = (IF grid.complexity < 50 THEN 1
                               ELSE grid.complexity \div 25))
  /\ [][StartsFromPreviousResult]_vars

\* enhanceShapes has returned after several iterations, the last of which
\* gave a grid that a sweep rewriting the grid in place would not have given.
C24_Witness ==
  /\ grid.pc = "done"
  /\ grid.iteration >= 2
  /\ grid.map # SweepInPlace(grid.prev, grid.rows, grid.cols)

(***************************************************************************)
(* Properties of the PatternCanvas (SpecCanvas).                           *)
(***************************************************************************)

\* Nothing is left to run: no render is pending and no timer is waiting.
CanvasQuiescent == ~RenderPending(cv) /\ cv.timers = << >>

\* The canvas, patternDataUrl and the background image all hold the image of
\* the last generation, and that generation read the request issued last.
PublishedLatest ==
  /\ cv.canvas = Len(cv.runs)
  /\ RequestOf(cv, cv.canvas) = cv.requests
  /\ cv.rendered.state.patternDataUrl = cv.canvas
  /\ cv.background.image = cv.canvas
  /\ cv.background.visible

\* A step leaves each published value at a result that is at least as new,
\* or starts a new instance whose canvas, URL and background are empty.
NoStaleOverwrite ==
  /\ cv'.canvas >= cv.canvas \/ cv'.canvas = 0
  /\ cv'.state.patternDataUrl >= cv.state.patternDataUrl
       \/ cv'.state.patternDataUrl = 0
  /\ cv'.background.image >= cv.background.image \/ cv'.background.image = 0

\* The last run of generatePattern in the mounted instance published its
\* image: it found a canvas and a 2D context and nothing threw.
LastRunPublished == cv.outcome = "published"

BaseCopy == shape.copies[5]

\* The offsets {-W, 0, W} x {-H, 0, H} of the raster, in hundredths.
ExactOffsets ==
  {<<dx * 100, dy * 100>> :
     dx \in {0 - shape.call.width, 0, shape.call.width},
     dy \in {0 - shape.call.height, 0, shape.call.height}}

\* C1: every shape a family draws is drawn nine times and the nine copies
\* are the same shape: no copy is built from random choices of its own that
\* differ from the base copy's, and the copies lie at the base copy's
\* position translated by exactly (dx, dy), dx in {-W, 0, W} and dy in
\* {-H, 0, H}, in raster coordinates (no rotation applied to the offsets).
C1_CopiesAreExactTranslates ==
  shape.pc = "drawn" =>
    /\ Len(shape.copies) = 9
    /\ \A k \in 1..9 : shape.copies[k].random = BaseCopy.random
    /\ {<<shape.copies[k].at[1] - BaseCopy.at[1],
          shape.copies[k].at[2] - BaseCopy.at[2]>> : k \in 1..9} = ExactOffsets

\* The copies whose path the model computes (the Urban shapes).
PathCopies == {k \in 1..9 : Len(shape.copies[k].path) > 0}

CoveredByCopies(p) ==
  \E k \in PathCopies :
     InPath(shape.copies[k].path, PathBox(shape.copies[k].path), PixelCentre(p))

\* Some point (x + i*W, y + j*H) lies in the base shape; an Urban shape is
\* shorter than a raster side, so |i|, |j| <= 2 covers every integer.
CoveredOnTorus(p) ==
  \E i \in -2..2, j \in -2..2 :
     InPath(BaseCopy.path, PathBox(BaseCopy.path),
            PixelCentre(<<p[1] + (i * shape.call.width),
                          p[2] + (j * shape.call.height)>>))

\* The raster pixel nearest to the middle of a copy.
CentrePixel(copy) ==
  LET box == PathBox(copy.path)
  IN  << Min(Max(((box.minX + box.maxX) \div 2) \div 100, 0),
             shape.call.width - 1),
         Min(Max(((box.minY + box.maxY) \div 2) \div 100, 0),
             shape.call.height - 1) >>

\* Pixels examined: a lattice over the raster with its last column and row,
\* and the pixel nearest to the middle of each copy.
ProbePixels ==
  ({x \in 0..(shape.call.width - 1) :
      x % 64 = 0 \/ x = shape.call.width - 1}
   \X {y \in 0..(shape.call.height - 1) :
      y % 64 = 0 \/ y = shape.call.height - 1})
  \cup {CentrePixel(shape.copies[k]) : k \in PathCopies}

\* C2: the 3x3 replication is a complete toroidal wrap, at every scale: a
\* raster pixel is covered by the drawn copies of a shape if and only if
\* some point (x + i*W, y + j*H), i and j any integers, lies in the base
\* shape.
C2_ReplicationIsToroidalWrap ==
  (shape.pc = "drawn" /\ PathCopies # {}) =>
    \A p \in ProbePixels : CoveredByCopies(p) <=> CoveredOnTorus(p)

(***************************************************************************)
(* Properties of the finished raster (SpecRaster).                         *)
(***************************************************************************)

\* C3: for a generation at default options, texture pass and
\* post-processing included, verifySeamless on the finished raster returns
\* true.
C3_FinishedRasterVerifiesSeamless ==
  (raster.pc = "done" /\ raster.options = UrbanPatternOptions(<< >>))
    => raster.isSeamless

(***************************************************************************)

PatternIds == 1..Len(lib.patterns)

\* C5: the noise tables a pattern's generate() samples are the ones seeded
\* when that pattern was constructed, even when another pattern instance was
\* constructed in between: no noise state is shared between generations.
C5_TablesOfOwnConstruction ==
  \A i \in PatternIds :
    lib.patterns[i].generated => lib.patterns[i].sampled = lib.patterns[i].seeded

\* Two strings are equal up to the case of their letters.
EqualIgnoringCase(a, b) ==
  /\ Len(a) = Len(b)
  /\ \A i \in 1..Len(a) :
       \/ a[i] = b[i]
       \/ \E k \in 1..26 : {a[i], b[i]} = {UpperCase[k], LowerCase[k]}

\* The six families under the names the specification gives them.
FamilyNames ==
  { [name |-> << "W", "o", "o", "d", "l", "a", "n", "d" >>, class |-> "WoodlandPattern"],
    [name |-> << "D", "e", "s", "e", "r", "t" >>, class |-> "DesertPattern"],
    [name |-> << "U", "r", "b", "a", "n" >>, class |-> "UrbanPattern"],
    [name |-> << "D", "i", "g", "i", "t", "a", "l" >>, class |-> "DigitalPattern"],
    [name |-> << "T", "i", "g", "e", "r", "S", "t", "r", "i", "p", "e" >>,
     class |-> "TigerStripePattern"],
    [name |-> << "F", "l", "e", "c", "k", "t", "a", "r", "n" >>, class |-> "FlecktarnPattern"] }

\* The same families under the identifiers of PatternType: TigerStripe is
\* requested as `tiger`.
FamilyIdentifiers ==
  { [name |-> << "w", "o", "o", "d", "l", "a", "n", "d" >>, class |-> "WoodlandPattern"],
    [name |-> << "d", "e", "s", "e", "r", "t" >>, class |-> "DesertPattern"],
    [name |-> << "u", "r", "b", "a", "n" >>, class |-> "UrbanPattern"],
    [name |-> << "d", "i", "g", "i", "t", "a", "l" >>, class |-> "DigitalPattern"],
    [name |-> << "t", "i", "g", "e", "r" >>, class |-> "TigerStripePattern"],
    [name |-> << "f", "l", "e", "c", "k", "t", "a", "r", "n" >>, class |-> "FlecktarnPattern"] }

\* Every pattern created so far was dispatched by the table `families`: a type
\* that matches a name up to case gave that family's generator without the
\* fallback warning, any other type gave the Woodland fallback built from the
\* options that were passed.
DispatchedBy(families) ==
  \A i \in PatternIds :
    LET p == lib.patterns[i]
    IN  /\ \A f \in families :
             EqualIgnoringCase(p.type, f.name) => (p.class = f.class /\ ~p.warned)
        /\ (\A f \in families : ~EqualIgnoringCase(p.type, f.name)) =>
             /\ p.class = "WoodlandPattern"
             /\ p.warned
             /\ p.options = WoodlandPatternOptions(p.given)

\* C8 as stated: an unrecognized type gives a Woodland generator built from the
\* same options, and each of the families Woodland, Desert, Urban, Digital,
\* TigerStripe and Flecktarn, matched case-insensitively, gives its own
\* generator and never the Woodland fallback.
C8_DispatchByFamilyName == DispatchedBy(FamilyNames)

\* C8 amended: the same dispatch holds for the identifiers woodland, desert,
\* urban, digital, tiger and flecktarn matched case-insensitively; the
\* TigerStripe family is selected by `tiger`, and `TigerStripe` itself is an
\* unrecognized type that falls back to Woodland.
C8_DispatchByIdentifier == DispatchedBy(FamilyIdentifiers)

\* `DESERT` reached the Desert generator and `multicam`, passed with options,
\* reached the Woodland fallback.
C8_Witness ==
  /\ \E i \in PatternIds :
       /\ lib.patterns[i].type = << "D", "E", "S", "E", "R", "T" >>
       /\ lib.patterns[i].class = "DesertPattern"
  /\ \E i \in PatternIds :
       /\ lib.patterns[i].type = << "m", "u", "l", "t", "i", "c", "a", "m" >>
       /\ DOMAIN lib.patterns[i].given # {}
       /\ lib.patterns[i].class = "WoodlandPattern"
       /\ lib.patterns[i].warned

\* C9: for every family and every colors array of length n >= 1, generate()
\* performs no drawing pass for a colour index >= n: a layer whose colour is
\* absent is skipped, not drawn with a missing or leftover fill colour.
C9_NoPassBeyondColors ==
  \A i \in PatternIds :
    LET p == lib.patterns[i]
    IN  p.generated =>
          \A k \in DOMAIN p.passes : p.passes[k].layer < Len(p.options.colors)

OptionFields == {"scale", "complexity", "colors", "contrast", "sharpness"}

OwnDefaults(class) ==
  CASE class = "WoodlandPattern" -> WoodlandDefaults
    [] class = "DesertPattern" -> DesertDefaults
    [] class = "UrbanPattern" -> UrbanDefaults
    [] class = "DigitalPattern" -> DigitalDefaults
    [] class = "TigerStripePattern" -> TigerDefaults
    [] class = "FlecktarnPattern" -> FlecktarnDefaults

\* C10: every effective option is the caller's value when the caller supplied
\* one, otherwise the default of the pattern's own family, otherwise the base
\* default, so that no field is left out; a Desert pattern created without
\* options ends with scale 40, complexity 50 and the desert palette.
C10_MergePrecedence ==
  \A i \in PatternIds :
    LET p == lib.patterns[i]
        own == OwnDefaults(p.class)
    IN  /\ \A f \in OptionFields :
             /\ f \in DOMAIN p.options
             /\ p.options[f] =
                  IF f \in DOMAIN p.given THEN p.given[f]
                  ELSE IF f \in DOMAIN own THEN own[f]
                  ELSE BaseDefaults[f]
        /\ (p.class = "DesertPattern" /\ DOMAIN p.given = {}) =>
             /\ p.options.scale = 40
             /\ p.options.complexity = 50
             /\ p.options.colors =
                  << "#D4C09E", "#C2B280", "#A68C69", "#856D54", "#4D3B24" >>

\* A Desert pattern created without options next to a Desert pattern created
\* with a caller's scale only.
C10_Witness ==
  /\ \E i \in PatternIds :
       /\ lib.patterns[i].class = "DesertPattern"
       /\ DOMAIN lib.patterns[i].given = {}
       /\ lib.patterns[i].options.scale = 40
       /\ lib.patterns[i].options.contrast = 50
  /\ \E i \in PatternIds :
       /\ lib.patterns[i].class = "DesertPattern"
       /\ DOMAIN lib.patterns[i].given = {"scale"}
       /\ lib.patterns[i].options.scale = 77
       /\ lib.patterns[i].options.complexity = 50

(***************************************************************************)
(* Properties of post-processing (SpecPost).                               *)
(***************************************************************************)

\* clamp(128 + (v - 128) * (1 + (contrast - 50) / 100), 0, 255) in millionths.
ContrastFormula(value, contrast) ==
  Max(0, Min(255 * 1000000,
             (128 * 1000000) + ((value - 128) * (100 + (contrast - 50)) * 10000)))

ContrastReturned == fn.pc = "returned" /\ fn.args.name = "contrast"

\* C16 as stated: the stored channel value is the value of the clamp formula
\* itself.
C16_ContrastIsFormula ==
  ContrastReturned =>
    fn.result * 1000000 = ContrastFormula(fn.args.value, fn.args.contrast)

\* C16: the stored channel value is an integer within one half of
\* clamp(128 + (v - 128) * (1 + (contrast - 50) / 100), 0, 255); contrast 50
\* leaves every value unchanged and every contrast in [0, 100] leaves the
\* value in 0..255.
C16_ContrastIsRoundedFormula ==
  ContrastReturned =>
    /\ Abs((fn.result * 1000000)
           - ContrastFormula(fn.args.value, fn.args.contrast)) <= 500000
    /\ fn.result \in 0..255
    /\ fn.args.contrast = 50 => fn.result = fn.args.value

\* C16 witness: a contrast above 50 has driven a bright value into the clamp.
C16_Witness ==
  /\ ContrastReturned
  /\ fn.args.contrast = 100
  /\ fn.args.value = 250
  /\ fn.result = 255

PostReturned == fn.pc = "returned" /\ fn.args.name = "applyPostProcessing"

\* C17: when sharpness is at most 50 and nothing fails, no temporary canvas
\* is made, the canvas holds the result of the contrast loop alone and its
\* filter is untouched; with contrast 50 as well every pixel is unchanged.
C17_SharpenNotEngaged ==
  (PostReturned /\ fn.args.sharpness <= 50 /\ fn.args.fault = "none") =>
    /\ ~fn.result.tempCanvas
    /\ fn.result.canvas.data = ContrastStage(fn.args.canvas.data, fn.args.contrast)
    /\ fn.result.canvas.filter = fn.args.canvas.filter
    /\ fn.args.contrast = 50 => fn.result.canvas = fn.args.canvas

\* C17 witness: a checkerboard went through post-processing at sharpness 40
\* and contrast 50 and came out as it was.
C17_Witness ==
  /\ PostReturned
  /\ fn.args.sharpness = 40
  /\ fn.args.contrast = 50
  /\ fn.args.fault = "none"
  /\ fn.args.canvas.data[0] # fn.args.canvas.data[1]
  /\ fn.result.canvas = fn.args.canvas

(***************************************************************************)
(* Properties of generatePattern (SpecGen).                                *)
(***************************************************************************)
RECURSIVE IsPrefix(_, _)
IsPrefix(s, t) ==
  \/ s = << >>
  \/ /\ t # << >>
     /\ Head(s) = Head(t)
     /\ IsPrefix(Tail(s), Tail(t))

\* The running or last generation went through every step.
GenerationCompleted ==
  /\ gen.generations > 0
  /\ gen.error = "none"
  /\ gen.pc \in {"finally", "ready"}

\* C11: the steps of a generation happen in the order factory, generate,
\* post-processing, seamlessness verification, publication; in a generation
\* that completes all five have happened, the flag is the verifier's result
\* on the post-processed raster the canvas holds, and that raster is
\* published (data URL set, in the gallery) whether the flag is true or false.
C11_StepsInOrder ==
  /\ IsPrefix(gen.steps, FullSteps)
  /\ GenerationCompleted =>
       /\ gen.steps = FullSteps
       /\ gen.isSeamless = verifySeamless(Edges(gen.canvas), gen.canvas.width,
                                          gen.canvas.height)
       /\ gen.patternDataUrl = toDataURL(gen.canvas)
       /\ \E i \in 1..Len(gen.gallery) : gen.gallery[i] = gen.patternDataUrl

\* A completed generation whose post-processing changed the verdict: the
\* generated raster passes the check, the post-processed one does not, and
\* it is published with the flag false.
C11_Witness ==
  /\ GenerationCompleted
  /\ gen.pc = "ready"
  /\ ~gen.isSeamless
  /\ verifySeamless(Edges(gen.generated), gen.generated.width,
                    gen.generated.height)
  /\ gen.patternDataUrl = toDataURL(gen.canvas)

\* C12: whenever no generation is running the component is in the
\* non-generating state, on every path of generatePattern.
C12_ReturnsToNonGenerating ==
  gen.pc = "ready" => ~gen.isGenerating

\* C13: after a post-processing in which a call failed, the canvas holds the
\* pixels it held before post-processing started.
C13_FailedPostLeavesRaster ==
  (gen.pc \in {"verifySeamless", "publish", "finally", "ready"}
     /\ gen.postFault # "none")
    => (gen.canvas.data = gen.generated.data)

(***************************************************************************)
(* Properties of verifySeamless (SpecSeam).                                *)
(***************************************************************************)
SeamTolerance ==
  maxMismatchTolerance(fn.args.size.width, fn.args.size.height)

LeftRightMismatches ==
  Mismatches(SeamEdges(fn.args), "left", "right", fn.args.size.height)

TopBottomMismatches ==
  Mismatches(SeamEdges(fn.args), "top", "bottom", fn.args.size.width)

\* C14: verifySeamless returns true exactly when the left/right comparison
\* and the top/bottom comparison both pass; each comparison counts only its
\* own mismatches (channels differing by more than 10) against the tolerance.
C14_BothAxesMustPass ==
  fn.pc = "returned" =>
    /\ fn.leftRightMatch = (LeftRightMismatches <= SeamTolerance)
    /\ fn.topBottomMatch = (TopBottomMismatches <= SeamTolerance)
    /\ fn.result = (fn.leftRightMatch /\ fn.topBottomMatch)
    /\ fn.result = verifySeamless(SeamEdges(fn.args), fn.args.size.width,
                                  fn.args.size.height)

\* Both axes carry mismatches within the tolerance whose sum exceeds it, and
\* the result is true.
C14_Witness ==
  /\ fn.pc = "returned"
  /\ fn.result
  /\ LeftRightMismatches > 0
  /\ TopBottomMismatches > 0
  /\ LeftRightMismatches + TopBottomMismatches > SeamTolerance

\* An axis follows the 2% rule when it passes exactly if its mismatches are
\* at most 2% of the samples compared on it.
FollowsTwoPercent(match, mismatches, samples) ==
  match = (mismatches * 100 <= samples * 2)

\* C15: each axis is declared non-seamless exactly when its mismatches
\* exceed 2% of the samples compared on that axis, the samples of an axis
\* being its compared channel values (3 per pixel) or its compared pixels.
C15_TwoPercentOfAxisSamples ==
  fn.pc = "returned" =>
    \E perPixel \in {1, 3} :
      /\ FollowsTwoPercent(fn.leftRightMatch, LeftRightMismatches,
                           perPixel * fn.args.size.height)
      /\ FollowsTwoPercent(fn.topBottomMatch, TopBottomMismatches,
                           perPixel * fn.args.size.width)

(***************************************************************************)
(* Properties of the noise field (SpecNoise).                              *)
(***************************************************************************)
\* The field a new PerlinNoise holds after seed(value).
FreshlySeeded(value) == seed(PerlinInit, value)

\* C18: whatever the field was seeded with before, after seed(value) its
\* tables are those of a new field seeded with value (gradP is read off
\* perm), and noise2D(x, y) returns what that new field returns at (x, y).
C18_SameSeedSameNoise ==
  /\ fn.perlin.perm = FreshlySeeded(fn.value).perm
  /\ \A i \in 0..511 :
       gradP(fn.perlin.perm, i) = gradP(FreshlySeeded(fn.value).perm, i)
  /\ fn.pc = "sampled" =>
       fn.result = noise2D(FreshlySeeded(fn.value).perm, fn.at[1], fn.at[2])

\* A field reseeded with a seed that changed its tables, then sampled.
C18_Witness ==
  /\ fn.pc = "sampled"
  /\ fn.seedings >= 2
  /\ fn.previous # fn.value
  /\ fn.before.perm # fn.perlin.perm
  /\ fn.result # 0

\* C19: a seed() call with a seed value different from the previous one
\* leaves tables different from the previous ones.
C19_DifferentSeedsDifferentTables ==
  (fn.seedings >= 2 /\ fn.previous # fn.value)
    => (fn.perlin.perm # fn.before.perm)

(***************************************************************************)
(* Properties of DigitalPattern.generate (SpecDigital).                    *)
(***************************************************************************)
DigitalCells == (0..(fn.rows - 1)) \X (0..(fn.cols - 1))

DigitalPixels == (0..(fn.height - 1)) \X (0..(fn.width - 1))

LayerIds == 0..(Len(fn.colors) - 1)

PixelColors == {fn.pixels[p[1]][p[2]] : p \in DigitalPixels}

\* C20: before the noise-texture pass every cell of the quantized grid and
\* of the smoothed grid holds a layer id in 0..N with N = len(colors) - 1,
\* every pixel of every block holds an entry of colors, and the raster
\* holds at most len(colors) distinct colours.
C20_DigitalLayersAndColors ==
  /\ fn.pc \in {"quantized", "enhancing", "enhanced", "painted"} =>
       \A c \in DigitalCells : fn.quantizedMap[c[1]][c[2]] \in LayerIds
  /\ fn.pc \in {"enhancing", "enhanced", "painted"} =>
       \A c \in DigitalCells : fn.enhancedMap[c[1]][c[2]] \in LayerIds
  /\ fn.pc = "painted" =>
       /\ \A p \in DigitalPixels :
            \E k \in 1..Len(fn.colors) : fn.pixels[p[1]][p[2]] = fn.colors[k]
       /\ Cardinality(PixelColors) <= Len(fn.colors)

\* A painted canvas of the 5-colour palette whose noise reached 1 (the
\* layer the clamp brings back to N), whose last column reaches beyond the
\* canvas and was brought back over the first pixel, and which shows 4
\* colours or more.
C20_Witness ==
  /\ fn.pc = "painted"
  /\ Len(fn.colors) = 5
  /\ \E c \in DigitalCells : fn.noiseMap[c[1]][c[2]] = 1000
  /\ fn.cols * fn.blockSize > fn.width
  /\ fn.rows * fn.blockSize = fn.height
  /\ fn.enhancedMap[0][0] # fn.enhancedMap[0][fn.cols - 1]
  /\ fn.enhancedMap[0][fn.cols - 1] < Len(fn.colors) - 1
  /\ fn.pixels[0][0] = fn.colors[fn.enhancedMap[0][fn.cols - 1] + 2]
  /\ Cardinality(PixelColors) >= 4

\* C30: after seed(s) the two halves of the tables are equal, every perm
\* entry is in 0..255, and the indices X + perm[Y], X + perm[Y + 1],
\* X + 1 + perm[Y] and X + 1 + perm[Y + 1] of noise2D stay within the
\* 512 entries for X and Y in 0..255.
C30_TablesCoverLookups ==
  /\ DOMAIN fn.perlin.perm = 0..511
  /\ \A i \in 0..255 :
       /\ fn.perlin.perm[i] = fn.perlin.perm[i + 256]
       /\ gradP(fn.perlin.perm, i) = gradP(fn.perlin.perm, i + 256)
       /\ fn.perlin.perm[i] \in 0..255
  /\ \A X \in {0, 255}, Y \in 0..255 :
       {X + fn.perlin.perm[Y], X + fn.perlin.perm[Y + 1],
        X + 1 + fn.perlin.perm[Y], X + 1 + fn.perlin.perm[Y + 1]}
         \subseteq 0..511

\* The field seeded with a negative seed after a fractional one, sampled in
\* the last cell of the lattice (X = Y = 255).
C30_Witness ==
  /\ fn.pc = "sampled"
  /\ fn.value = (-1) * SeedUnit
  /\ fn.previous = 16384
  /\ fn.at = <<5119, 5119>>

(***************************************************************************)
(* Properties of the gallery (SpecGallery).                                *)
(***************************************************************************)
\* What handleAddToGallery is to return for the gallery `before` and the
\* item `url`.
ExpectedGallery(before, url) ==
  IF \E i \in 1..Len(before) : before[i] = url THEN before
  ELSE IF Len(before) = 5 THEN Append(Tail(before), url)
  ELSE Append(before, url)

RadiusReturned == fn.pc = "returned" /\ fn.args.name = "radius"

\* C21: the per-vertex radius of Woodland, Desert and Flecktarn is strictly
\* positive and bounded, and the base radius lies in [minSize, maxSize] with
\* minSize > 0.
C21_RadiusPositive ==
  RadiusReturned =>
    /\ fn.result.minSize > 0
    /\ fn.result.radius >= fn.result.minSize
    /\ fn.result.radius <= fn.result.maxSize
    /\ fn.result.factor > 0
    /\ fn.result.radiusVariation > 0
    /\ fn.result.radiusVariation * 10 <= 4 * fn.result.maxSize

BlockSizeReturned == fn.pc = "returned" /\ fn.args.name = "blockSize"

\* C29: for every scale in 10..100 the block size is an integer in 3..10,
\* not larger than the block size of the next scale, 3 at scale 10 and 10
\* at scale 100.
C29_BlockSizeRange ==
  (BlockSizeReturned /\ fn.args.scale >= 10) =>
    /\ fn.result \in 3..10
    /\ fn.args.scale < 100 => fn.result <= digitalBlockSize(fn.args.scale + 1)
    /\ fn.args.scale = 10 => fn.result = 3
    /\ fn.args.scale = 100 => fn.result = 10

\* The block size at scale 100.
C29_Witness ==
  /\ BlockSizeReturned
  /\ fn.args.scale = 100
  /\ fn.result = 10

(***************************************************************************)
(* Properties of generateFlecktarnSpots (SpecFleck).                       *)
(***************************************************************************)
\* The proposed positions that passed the noise threshold, in the order of
\* their proposal.
PassingPositions ==
  SelectSeq(fn.proposed,
            LAMBDA p : PassesThreshold(p.noiseVal, fn.params.irregularity))

SeqRange(items) == {items[k] : k \in 1..Len(items)}

NoDuplicates(items) ==
  \A k, l \in 1..Len(items) : items[k] = items[l] => k = l

\* C22: exactly 2 * count positions are proposed; the kept positions are
\* always the passing candidates, each once, whatever the shuffle did; the
\* spots drawn are distinct passing candidates and their number is
\* min(count, number of passing candidates).
C22_ProposeThenCull ==
  /\ fn.pc # "proposing" => Len(fn.proposed) = fn.params.count * 2
  /\ fn.pc \in {"proposing", "shuffling"} =>
       /\ NoDuplicates(fn.positions)
       /\ SeqRange(fn.positions) = SeqRange(PassingPositions)
  /\ fn.pc = "done" =>
       /\ NoDuplicates(fn.drawn)
       /\ SeqRange(fn.drawn) \subseteq SeqRange(PassingPositions)
       /\ Len(fn.drawn) = Min(fn.params.count, Len(PassingPositions))
       /\ Len(fn.drawn) <= fn.params.count

\* More candidates than needed passed, the spots drawn are not the first
\* ones proposed, and one of them lies at the noise value -0.05 that the
\* threshold of irregularity 0.5 lets pass.
C22_Witness ==
  /\ fn.pc = "done"
  /\ fn.params.irregularity = DoubleOfRatio(1, 2)
  /\ \E k \in 1..Len(fn.drawn) : fn.drawn[k].noiseVal = -50
  /\ Len(PassingPositions) > fn.params.count
  /\ Len(fn.drawn) = fn.params.count
  /\ fn.drawn # SubSeq(PassingPositions, 1, fn.params.count)

(***************************************************************************)
(* Properties of the edge scan of generateTigerStripes (SpecTiger).        *)
(***************************************************************************)
\* The pixel at (x, y), both wrapped into the raster, of the image data the
\* scan reads: the pattern canvas as it was before any stripe was painted.
WrappedPixel(x, y) ==
  DataAt(fn.data, ((y % fn.height) * fn.width) + (x % fn.width))

\* (x, y) is on the sampling grid inside the raster, is of the base colour,
\* and one of its eight neighbours at the sampling stride, wrapped into the
\* raster, is not.
BoundaryPoint(x, y) ==
  /\ x \in 0..(fn.width - 1) /\ y \in 0..(fn.height - 1)
  /\ x % sampleStep = 0 /\ y % sampleStep = 0
  /\ isBaseColor(WrappedPixel(x, y), fn.baseRgb)
  /\ \E ny \in {0 - sampleStep, 0, sampleStep}, nx \in {0 - sampleStep, 0, sampleStep} :
       /\ ~(nx = 0 /\ ny = 0)
       /\ ~isBaseColor(WrappedPixel(x + nx, y + ny), fn.baseRgb)

\* C23: every edge point found, and every point a stripe is drawn at, is a
\* boundary point; a raster without boundary points gives no edge point and
\* no stripe, and the method returns.
C23_EdgePointsAreBoundary ==
  /\ \A k \in 1..Len(fn.edgePoints) :
       BoundaryPoint(fn.edgePoints[k][1], fn.edgePoints[k][2])
  /\ \A k \in 1..Len(fn.stripes) :
       BoundaryPoint(fn.stripes[k][1], fn.stripes[k][2])
  /\ fn.pc = "returned" => fn.stripes = fn.edgePoints
  /\ (\A x \in 0..(fn.width - 1), y \in 0..(fn.height - 1) : ~BoundaryPoint(x, y)) =>
       /\ fn.edgePoints = << >>
       /\ fn.stripes = << >>
       /\ fn.pc \in {"called", "scanning", "drawing", "returned"}

\* At complexity 40 a stripe is drawn at (0, 0), whose only neighbours off
\* the base colour are reached through the wrap; the stripe is painted over
\* the pixel at (0, 0) and, through the tiled copies, over the pixel in the
\* opposite corner, while the image data the scan read is as it was.
C23_Witness ==
  /\ fn.pc = "returned"
  /\ fn.complexity = 40
  /\ Len(fn.stripes) >= 2
  /\ fn.stripes[1] = <<0, 0>>
  /\ fn.canvas[0] = fn.color
  /\ fn.canvas[(fn.width * fn.height) - 1] = fn.color
  /\ fn.data[0] # fn.color
  /\ \E p \in DOMAIN fn.canvas : fn.canvas[p] = fn.data[p]
  /\ isBaseColor(WrappedPixel(sampleStep, 0), fn.baseRgb)
  /\ isBaseColor(WrappedPixel(0, sampleStep), fn.baseRgb)
  /\ isBaseColor(WrappedPixel(sampleStep, sampleStep), fn.baseRgb)

(***************************************************************************)
(* The seamless flag and the published pattern (SpecGen).                  *)
(***************************************************************************)
\* The raster a data URL encodes.
DecodedRaster(dataUrl) ==
  [width |-> dataUrl.width, height |-> dataUrl.height, data |-> dataUrl.pixels]

\* patternDataUrl was set by a generation: onAddToGallery received the same
\* URL, while the fallback and the pattern of the initial-pattern effect never
\* enter the gallery.
GeneratedPublished ==
  \E i \in 1..Len(gen.gallery) : gen.gallery[i] = gen.patternDataUrl

\* C28: whenever generatePattern is not running and a generated pattern is
\* published, isSeamless is the result of verifySeamless on the raster that
\* patternDataUrl encodes.
C28_FlagDescribesPublished ==
  (gen.pc = "ready" /\ GeneratedPublished) =>
    gen.isSeamless =
      verifySeamless(Edges(DecodedRaster(gen.patternDataUrl)),
                     gen.patternDataUrl.width, gen.patternDataUrl.height)

(***************************************************************************)
(* Properties of the effects of a mounted PatternCanvas (SpecEffects).     *)
(***************************************************************************)
\* C25: when the generation effect skips regeneration, the canvas holds a
\* pattern generated without failure from settings equal to the current
\* ones on patternType, scale, complexity, contrast, sharpness and colors.
C25_SkipOnlyOverGeneratedPattern ==
  gen.skipped =>
    /\ gen.canvas.kind = "generated"
    /\ ~HaveSettingsChanged(gen.canvas.settings, gen.settings)

\* A step of one mounted instance.
SameInstance == gen'.mount = gen.mount

\* A step from a published generated pattern leaves a generated pattern
\* published and queues none but generated patterns.
GeneratedStays ==
  IsGeneratedUrl(gen.patternDataUrl) =>
    /\ IsGeneratedUrl(gen'.patternDataUrl)
    /\ \A k \in 1..Len(gen'.updates) : IsGeneratedUrl(gen'.updates[k])

PublishedStays == SameInstance => GeneratedStays

\* A step that mounts a new instance starts it at the fallback pattern.
RemountStartsAtFallback ==
  ~SameInstance => gen'.patternDataUrl = fallbackPattern

====
